---- MODULE Spec2Model ----
(***************************************************************************)
(* Snapshot diff and metrics engine of three_kingdoms_strategy:            *)
(*   - PeriodMetricsService  (backend/src/services/period_metrics_service) *)
(*   - BattleEventService    (backend/src/services/battle_event_service)   *)
(* One season of one alliance.  Dates are day numbers, an upload's         *)
(* snapshot_date is a tick (DateOf gives its calendar day), ids are small  *)
(* integers, Decimal values with two places are integers of hundredths.    *)
(***************************************************************************)
EXTENDS Integers, Sequences, FiniteSets, TLC

\* ------------------------------------------------------------------ bounds
MaxUploads == 3      \* uploads a season holds at one time
MaxDay == 3          \* calendar days 0..MaxDay
MaxCounter == 2      \* largest cumulative counter of a snapshot
MaxStepUploads == 2  \* uploads of the season while calls run step by step
MaxRows == 3         \* metric rows of an event whose analytics are read directly
MaxSeasons == 2      \* seasons of the alliance
MaxPurchased == 2    \* largest purchased_seasons of the alliance
MaxStoreSize == 1    \* max_size of the idempotency storage
MaxHandled == 2      \* successful runs of the downstream handler that are counted

Ticks == 0..(2 * MaxDay + 1)          \* two upload times per calendar day
MemberIds == {"m1", "m2"}
Procs == {1, 2}                       \* concurrent requests

\* Optional values: None, or Some(x)
None == <<>>
Some(x) == <<x>>

Max(a, b) == IF a >= b THEN a ELSE b

\* datetime.date(): the calendar day of a snapshot_date
DateOf(t) == t \div 2

VARIABLES
    start_date,      \* season.start_date
    uploads,         \* csv_uploads rows of the season, in the order the repository returns them
    snapshots,       \* member_snapshots rows by csv_upload_id
    periods,         \* periods rows of the season
    metrics,         \* member_period_metrics rows
    last_op,         \* the handler that ran last
    rb,              \* the calculate_periods_for_season calls in progress: their
                     \* position and local variables
    event,           \* the battle_events row of the season's event
    event_metrics,   \* battle_event_metrics rows of that event
    eb,              \* the process_event_snapshots calls in progress: their
                     \* position and local variables
    uc,              \* the update_event call in progress: its position and
                     \* its arguments
    sc,              \* the get_event_summary call in progress
    gc,              \* the get_event_group_analytics call in progress
    dc,              \* the delete_event calls in progress
    call,            \* the call that has returned: its arguments and what it
                     \* read (the arguments of a call of a function that awaits
                     \* nothing)
    result,          \* what that call returned (None while a function that
                     \* awaits nothing has not returned)
    seasons,         \* seasons rows of the alliance by id
    alliance,        \* the alliances row: purchased_seasons, used_seasons
    sq,              \* the activate_season / add_purchased_seasons calls in
                     \* progress: their position and local variables
    store,           \* InMemoryIdempotencyStorage._store, oldest record first
    req,             \* the requests inside IdempotencyMiddleware.dispatch
    handled          \* per Idempotency-Key, the 2xx runs of the downstream handler

account_vars == <<seasons, alliance, sq, store, req, handled>>
event_call_vars == <<sc, gc, dc>>
rest_vars == <<uc, event_call_vars, account_vars>>

vars == <<start_date, uploads, snapshots, periods, metrics, last_op, rb,
          event, event_metrics, eb, call, result, rest_vars>>

\* ------------------------------------------------- seasons, quota, requests
SeasonIds == 1..MaxSeasons
IdemKeys == {"k1", "k2"}

\* the longest season _validate_season_duration lets pass
MAX_SEASON_DAYS == 120

\* create_season: a season starts as a draft that is not current; season k
\* covers the k-th range of SeasonSlotDays days, so that no two stored ranges
\* overlap (_validate_no_date_overlap lets adjacent ranges pass).  exists
\* says that the row is stored
SeasonSlotDays == MAX_SEASON_DAYS
NewSeason(k) ==
    [exists |-> TRUE,
     activation_status |-> "draft", is_current |-> FALSE, is_trial |-> FALSE,
     start_date |-> (k - 1) * SeasonSlotDays,
     end_date |-> Some(k * SeasonSlotDays)]
\* the place of a row that delete_season removed: no query returns it and
\* nothing reads its other fields
DeletedSeason(k) == [NewSeason(k) EXCEPT !.exists = FALSE]
\* a new alliance has bought and used nothing
NewAlliance == [purchased_seasons |-> 0, used_seasons |-> 0]
\* the local variables of a season or quota call
IdleSeasonCall ==
    [pc |-> "idle", fn |-> "", season_id |-> None, end_date |-> None,
     alliance |-> NewAlliance, used_trial |-> FALSE, quantity |-> 0,
     to_unset |-> <<>>]
IdleRequest == [pc |-> "idle", key |-> None, status_code |-> None]
\* the local variables of an update_event call: the fields of the request
\* (name stands for name and description)
IdleUpdateCall == [pc |-> "idle", event_type |-> None, name |-> None]
\* the local variables of a get_event_summary call: the event_type it read
IdleSummaryCall == [pc |-> "idle", event_type |-> ""]
\* the local variables of a get_event_group_analytics call: top_n, the
\* event_type it read and the rows of its first read
IdleAnalyticsCall == [pc |-> "idle", top_n |-> 0, event_type |-> "", metrics |-> <<>>]
\* a delete_event call
IdleDeleteCall == [pc |-> "idle"]

\* An alliance with draft seasons only and no request under way
NoAccount ==
    /\ seasons = [s \in SeasonIds |-> NewSeason(s)]
    /\ alliance = NewAlliance
    /\ sq = [p \in Procs |-> IdleSeasonCall]
    /\ store = <<>>
    /\ req = [p \in Procs |-> IdleRequest]
    /\ handled = [k \in IdemKeys |-> 0]
    /\ uc = IdleUpdateCall
    /\ sc = IdleSummaryCall
    /\ gc = IdleAnalyticsCall
    /\ dc = [p \in Procs |-> IdleDeleteCall]

\* ------------------------------------------------------------ snapshot data
Snap(m, c, me, a, d, p, r) ==
    [member_id |-> m, total_contribution |-> c, total_merit |-> me,
     total_assist |-> a, total_donation |-> d, power_value |-> p,
     contribution_rank |-> r]

\* The contents of a CSV: one row per member, no member twice.
\* Between RosterA and RosterB every counter of m1 moves (up one way, down the
\* other way), and m2 is in RosterA only.
RosterA == << Snap("m1", 0, MaxCounter, 1, 0, 1, 2),
              Snap("m2", MaxCounter, 1, 0, 1, 2, 1) >>
RosterB == << Snap("m1", MaxCounter, 0, 0, 1, 0, 1) >>
Rosters == <<RosterA, RosterB>>

\* The UUID of an upload.  The model names an upload after its snapshot_date and
\* its contents, so that equal tables are equal states.
UploadId(t, r) == t * Len(Rosters) + r
UploadIds == {UploadId(t, r) : t \in Ticks, r \in 1..Len(Rosters)}

\* The member_snapshots rows a CSV creates for upload upload_id
SnapshotRows(roster, upload_id) ==
    [k \in 1..Len(roster) |->
        [id |-> <<upload_id, roster[k].member_id>>,
         csv_upload_id |-> upload_id,
         member_id |-> roster[k].member_id,
         total_contribution |-> roster[k].total_contribution,
         total_merit |-> roster[k].total_merit,
         total_assist |-> roster[k].total_assist,
         total_donation |-> roster[k].total_donation,
         power_value |-> roster[k].power_value,
         contribution_rank |-> roster[k].contribution_rank]]

\* member_snapshot_repository.get_by_upload: the rows of an upload ([] when it has none)
get_by_upload(snaps, upload_id) ==
    IF upload_id \in DOMAIN snaps THEN snaps[upload_id] ELSE <<>>

\* {snap.member_id: snap for snap in rows}: the members of a row list
MemberSet(rows) == {rows[k].member_id : k \in 1..Len(rows)}
\* dict lookup: the row of member m (the last one wins, as in a dict comprehension)
SnapOf(rows, m) ==
    rows[CHOOSE k \in 1..Len(rows) :
            /\ rows[k].member_id = m
            /\ \A j \in (k + 1)..Len(rows) : rows[j].member_id # m]
\* dict order: the order of first insertion of each key
RECURSIVE DictKeys(_)
DictKeys(rows) ==
    IF rows = <<>> THEN <<>>
    ELSE LET init == DictKeys(SubSeq(rows, 1, Len(rows) - 1))
             m == rows[Len(rows)].member_id
         IN IF \E k \in 1..Len(init) : init[k] = m THEN init ELSE Append(init, m)

\* truncation of diff / days to two decimal places
QuantizeTruncated(diff, days) == (diff * 100) \div days

\* ------------------------------------------------------------- Decimal
\* (Decimal(diff) / Decimal(days)).quantize(Decimal("0.01")), in hundredths:
\* ROUND_HALF_EVEN, diff >= 0, days >= 1
Quantize(diff, days) ==
    LET q == (diff * 100) \div days
        r == (diff * 100) % days
    IN IF 2 * r > days THEN q + 1
       ELSE IF 2 * r = days THEN q + (q % 2)
       ELSE q

\* ------------------------------------------------------ metric builders
\* build_period_metrics without the max(0, ...) clamp
build_period_metrics_unclamped(period_id, start_snapshot, end_snapshot, days) ==
    [period_id |-> period_id,
     member_id |-> end_snapshot.member_id,
     start_snapshot_id |-> Some(start_snapshot.id),
     end_snapshot_id |-> Some(end_snapshot.id),
     contribution_diff |->
        end_snapshot.total_contribution - start_snapshot.total_contribution,
     merit_diff |-> end_snapshot.total_merit - start_snapshot.total_merit,
     assist_diff |-> end_snapshot.total_assist - start_snapshot.total_assist,
     donation_diff |-> end_snapshot.total_donation - start_snapshot.total_donation,
     power_diff |-> end_snapshot.power_value - start_snapshot.power_value,
     daily_contribution |->
        Quantize(end_snapshot.total_contribution - start_snapshot.total_contribution, days),
     daily_merit |->
        Quantize(end_snapshot.total_merit - start_snapshot.total_merit, days),
     daily_assist |->
        Quantize(end_snapshot.total_assist - start_snapshot.total_assist, days),
     daily_donation |->
        Quantize(end_snapshot.total_donation - start_snapshot.total_donation, days),
     start_rank |-> Some(start_snapshot.contribution_rank),
     end_rank |-> end_snapshot.contribution_rank,
     rank_change |->
        Some(start_snapshot.contribution_rank - end_snapshot.contribution_rank),
     end_power |-> end_snapshot.power_value,
     is_new_member |-> FALSE]

build_period_metrics(period_id, start_snapshot, end_snapshot, days) ==
    LET contribution_diff ==
            Max(0, end_snapshot.total_contribution - start_snapshot.total_contribution)
        merit_diff == Max(0, end_snapshot.total_merit - start_snapshot.total_merit)
        assist_diff == Max(0, end_snapshot.total_assist - start_snapshot.total_assist)
        donation_diff ==
            Max(0, end_snapshot.total_donation - start_snapshot.total_donation)
        power_diff == end_snapshot.power_value - start_snapshot.power_value
    IN [period_id |-> period_id,
        member_id |-> end_snapshot.member_id,
        start_snapshot_id |-> Some(start_snapshot.id),
        end_snapshot_id |-> Some(end_snapshot.id),
        contribution_diff |-> contribution_diff,
        merit_diff |-> merit_diff,
        assist_diff |-> assist_diff,
        donation_diff |-> donation_diff,
        power_diff |-> power_diff,
        daily_contribution |-> Quantize(contribution_diff, days),
        daily_merit |-> Quantize(merit_diff, days),
        daily_assist |-> Quantize(assist_diff, days),
        daily_donation |-> Quantize(donation_diff, days),
        start_rank |-> Some(start_snapshot.contribution_rank),
        end_rank |-> end_snapshot.contribution_rank,
        rank_change |->
            Some(start_snapshot.contribution_rank - end_snapshot.contribution_rank),
        end_power |-> end_snapshot.power_value,
        is_new_member |-> FALSE]

build_first_period_metrics(period_id, end_snapshot, days) ==
    [period_id |-> period_id,
     member_id |-> end_snapshot.member_id,
     start_snapshot_id |-> None,
     end_snapshot_id |-> Some(end_snapshot.id),
     contribution_diff |-> end_snapshot.total_contribution,
     merit_diff |-> end_snapshot.total_merit,
     assist_diff |-> end_snapshot.total_assist,
     donation_diff |-> end_snapshot.total_donation,
     power_diff |-> end_snapshot.power_value,
     daily_contribution |-> Quantize(end_snapshot.total_contribution, days),
     daily_merit |-> Quantize(end_snapshot.total_merit, days),
     daily_assist |-> Quantize(end_snapshot.total_assist, days),
     daily_donation |-> Quantize(end_snapshot.total_donation, days),
     start_rank |-> None,
     end_rank |-> end_snapshot.contribution_rank,
     rank_change |-> None,
     end_power |-> end_snapshot.power_value,
     is_new_member |-> TRUE]

\* ------------------------------------------------- tables and repositories
\* The database rows the rebuild writes: db = [periods |-> rows, metrics |-> rows]
PeriodIds(period_rows) == {period_rows[k].id : k \in 1..Len(period_rows)}

\* The ids of the period rows that calls in progress hold
HeldPeriodIds ==
    {rb[p].period[1].id : p \in {q \in Procs : rb[q].period # None}}

\* The id (a UUID) the database gives a new periods row: one that no row has
\* and no call holds
NewPeriodId(period_rows) ==
    CHOOSE n \in 1..(Len(period_rows) + Cardinality(Procs) + 1) :
        n \notin PeriodIds(period_rows) \cup HeldPeriodIds

\* period_repository.create: insert the row and return it with its id
period_create(db, period_data) ==
    [periods |-> Append(db.periods,
                        [id |-> NewPeriodId(db.periods)] @@ period_data),
     metrics |-> db.metrics]

\* member_period_metrics_repository.create_batch
metrics_create_batch(db, metrics_list) ==
    [periods |-> db.periods, metrics |-> db.metrics \o metrics_list]

\* delete_by_season with the delete left out
delete_by_season_skipped(db) == db

\* period_repository.delete_by_season: every periods row of the season, and
\* with them (ON DELETE CASCADE) the metrics rows of those periods
delete_by_season(db) ==
    [periods |-> <<>>,
     metrics |-> SelectSeq(db.metrics,
                           LAMBDA r : r.period_id \notin PeriodIds(db.periods))]

\* sorted(uploads, key=lambda u: u.snapshot_date): stable, ascending
RECURSIVE InsertByDate(_, _)
InsertByDate(u, sorted) ==
    IF sorted = <<>> THEN <<u>>
    ELSE IF sorted[Len(sorted)].snapshot_date <= u.snapshot_date
         THEN Append(sorted, u)
         ELSE Append(InsertByDate(u, SubSeq(sorted, 1, Len(sorted) - 1)),
                     sorted[Len(sorted)])
\* the rows as the repository returns them, without the sort
uploads_unsorted(rows) == rows

RECURSIVE SortedBySnapshotDate(_)
SortedBySnapshotDate(rows) ==
    IF rows = <<>> THEN <<>>
    ELSE InsertByDate(rows[Len(rows)],
                      SortedBySnapshotDate(SubSeq(rows, 1, Len(rows) - 1)))

\* ------------------------------------------------------ PeriodMetricsService
\* _calculate_first_period, lines 128-145: the period row, or None when days <= 0
first_period_data(season_start_date, end_upload, period_number) ==
    LET end_date == DateOf(end_upload.snapshot_date)
        days == end_date - season_start_date
    IN IF days <= 0 THEN None
       ELSE Some([start_upload_id |-> None,
                  end_upload_id |-> end_upload.id,
                  start_date |-> season_start_date,
                  end_date |-> end_date,
                  days |-> days,
                  period_number |-> period_number])

\* _calculate_first_period, lines 149-161: one row per end snapshot, all new
first_period_metrics_list(snaps, period, end_upload) ==
    LET end_snapshots == get_by_upload(snaps, end_upload.id)
    IN [k \in 1..Len(end_snapshots) |->
           build_first_period_metrics(period.id, end_snapshots[k], period.days)]

\* period_data with days taken from the datetimes instead of the dates
period_data_by_datetime(start_upload, end_upload, period_number) ==
    LET days == end_upload.snapshot_date - start_upload.snapshot_date
    IN IF days <= 0 THEN None
       ELSE Some([start_upload_id |-> Some(start_upload.id),
                  end_upload_id |-> end_upload.id,
                  start_date |-> DateOf(start_upload.snapshot_date),
                  end_date |-> DateOf(end_upload.snapshot_date),
                  days |-> days,
                  period_number |-> period_number])

\* _calculate_period, lines 189-207: the period row, or None when days <= 0
period_data(start_upload, end_upload, period_number) ==
    LET sdate == DateOf(start_upload.snapshot_date)
        edate == DateOf(end_upload.snapshot_date)
        days == edate - sdate
    IN IF days <= 0 THEN None
       ELSE Some([start_upload_id |-> Some(start_upload.id),
                  end_upload_id |-> end_upload.id,
                  start_date |-> sdate,
                  end_date |-> edate,
                  days |-> days,
                  period_number |-> period_number])

\* _calculate_period, lines 211-242: one row per member of end_map
period_metrics_list_all_new(snaps, period, start_upload, end_upload) ==
    LET end_snapshots == get_by_upload(snaps, end_upload.id)
        keys == DictKeys(end_snapshots)
    IN [k \in 1..Len(keys) |->
           build_first_period_metrics(period.id, SnapOf(end_snapshots, keys[k]),
                                      period.days)]

period_metrics_list_with_left(snaps, period, start_upload, end_upload) ==
    LET start_snapshots == get_by_upload(snaps, start_upload.id)
        end_snapshots == get_by_upload(snaps, end_upload.id)
        keys == DictKeys(start_snapshots) \o
                SelectSeq(DictKeys(end_snapshots),
                          LAMBDA m : m \notin MemberSet(start_snapshots))
    IN [k \in 1..Len(keys) |->
           IF keys[k] \notin MemberSet(start_snapshots)
           THEN build_first_period_metrics(period.id,
                                           SnapOf(end_snapshots, keys[k]), period.days)
           ELSE IF keys[k] \in MemberSet(end_snapshots)
           THEN build_period_metrics(period.id, SnapOf(start_snapshots, keys[k]),
                                     SnapOf(end_snapshots, keys[k]), period.days)
           ELSE build_period_metrics(period.id, SnapOf(start_snapshots, keys[k]),
                                     SnapOf(start_snapshots, keys[k]), period.days)]

period_metrics_list(snaps, period, start_upload, end_upload) ==
    LET start_snapshots == get_by_upload(snaps, start_upload.id)
        end_snapshots == get_by_upload(snaps, end_upload.id)
        keys == DictKeys(end_snapshots)
    IN [k \in 1..Len(keys) |->
           LET end_snap == SnapOf(end_snapshots, keys[k])
           IN IF keys[k] \in MemberSet(start_snapshots)
              THEN build_period_metrics(period.id,
                                        SnapOf(start_snapshots, keys[k]),
                                        end_snap, period.days)
              ELSE build_first_period_metrics(period.id, end_snap, period.days)]

\* The period row just created (period_repository.create returns it)
LastPeriod(db) == db.periods[Len(db.periods)]

calculate_first_period(db, snaps, season_start_date, end_upload, period_number) ==
    LET data == first_period_data(season_start_date, end_upload, period_number)
    IN IF data = None THEN db
       ELSE LET db1 == period_create(db, data[1])
            IN metrics_create_batch(
                   db1, first_period_metrics_list(snaps, LastPeriod(db1), end_upload))

calculate_period(db, snaps, start_upload, end_upload, period_number) ==
    LET data == period_data(start_upload, end_upload, period_number)
    IN IF data = None THEN db
       ELSE LET db1 == period_create(db, data[1])
            IN metrics_create_batch(
                   db1, period_metrics_list(snaps, LastPeriod(db1),
                                            start_upload, end_upload))

\* The number the loop of calculate_periods_for_season gives the period of
\* uploads[i] (0-based enumerate index i0 = i - 1: 1 for the first, i0 + 1 after)
PeriodNumber(i) == i

\* One iteration of the loop of calculate_periods_for_season (i is 1-based)
calculate_iteration(db, snaps, season_start_date, sorted, i) ==
    IF i = 1
    THEN calculate_first_period(db, snaps, season_start_date, sorted[i], 1)
    ELSE calculate_period(db, snaps, sorted[i - 1], sorted[i], PeriodNumber(i))

RECURSIVE calculate_loop(_, _, _, _, _)
calculate_loop(db, snaps, season_start_date, sorted, i) ==
    IF i > Len(sorted) THEN db
    ELSE calculate_loop(calculate_iteration(db, snaps, season_start_date, sorted, i),
                        snaps, season_start_date, sorted, i + 1)

\* PeriodMetricsService.calculate_periods_for_season, run to completion
calculate_periods_for_season(db, snaps, season_start_date, upload_rows) ==
    IF upload_rows = <<>> THEN db
    ELSE calculate_loop(delete_by_season(db), snaps, season_start_date,
                        SortedBySnapshotDate(upload_rows), 1)

\* ------------------------------------------------------ battle events
EventCategories == {"siege", "forbidden", "battle"}

\* A battle event as create_event stores it
NewEvent(event_type) ==
    [event_type |-> event_type, status |-> "draft",
     before_upload_id |-> None, after_upload_id |-> None,
     event_start |-> None, event_end |-> None]

determine_participation_any_diff(event_type, contribution_diff, merit_diff, assist_diff, power_diff) ==
    LET participated ==
            IF event_type = "forbidden" THEN FALSE
            ELSE contribution_diff > 0 \/ assist_diff > 0 \/ merit_diff > 0
        is_absent == IF event_type # "forbidden" THEN ~participated ELSE FALSE
    IN <<participated, is_absent>>

\* returns <<participated, is_absent>>
determine_participation(event_type, contribution_diff, merit_diff, assist_diff, power_diff) ==
    LET participated ==
            IF event_type = "siege" THEN contribution_diff > 0 \/ assist_diff > 0
            ELSE IF event_type = "forbidden" THEN FALSE
            ELSE merit_diff > 0
        is_absent == IF event_type # "forbidden" THEN ~participated ELSE FALSE
    IN <<participated, is_absent>>

\* the row of a member in both snapshots
existing_member_metrics(event_type, before_snap, after_snap) ==
    LET contribution_diff == Max(0, after_snap.total_contribution - before_snap.total_contribution)
        merit_diff == Max(0, after_snap.total_merit - before_snap.total_merit)
        assist_diff == Max(0, after_snap.total_assist - before_snap.total_assist)
        donation_diff == Max(0, after_snap.total_donation - before_snap.total_donation)
        power_diff == after_snap.power_value - before_snap.power_value
        flags == determine_participation(event_type, contribution_diff, merit_diff,
                                         assist_diff, power_diff)
    IN [member_id |-> after_snap.member_id,
        start_snapshot_id |-> Some(before_snap.id),
        end_snapshot_id |-> Some(after_snap.id),
        contribution_diff |-> contribution_diff,
        merit_diff |-> merit_diff,
        assist_diff |-> assist_diff,
        donation_diff |-> donation_diff,
        power_diff |-> power_diff,
        participated |-> flags[1],
        is_new_member |-> FALSE,
        is_absent |-> flags[2]]

new_member_metrics_participated(after_snap) ==
    [member_id |-> after_snap.member_id,
     start_snapshot_id |-> None,
     end_snapshot_id |-> Some(after_snap.id),
     contribution_diff |-> 0, merit_diff |-> 0, assist_diff |-> 0,
     donation_diff |-> 0, power_diff |-> 0,
     participated |-> TRUE, is_new_member |-> TRUE, is_absent |-> FALSE]

\* the row of a member only in the after snapshot
new_member_metrics(after_snap) ==
    [member_id |-> after_snap.member_id,
     start_snapshot_id |-> None,
     end_snapshot_id |-> Some(after_snap.id),
     contribution_diff |-> 0, merit_diff |-> 0, assist_diff |-> 0,
     donation_diff |-> 0, power_diff |-> 0,
     participated |-> FALSE, is_new_member |-> TRUE, is_absent |-> FALSE]

left_member_metrics_as_new(before_snap) == new_member_metrics(before_snap)

\* the row of a member only in the before snapshot
left_member_metrics(before_snap) ==
    [member_id |-> before_snap.member_id,
     start_snapshot_id |-> Some(before_snap.id),
     end_snapshot_id |-> None,
     contribution_diff |-> 0, merit_diff |-> 0, assist_diff |-> 0,
     donation_diff |-> 0, power_diff |-> 0,
     participated |-> FALSE, is_new_member |-> FALSE, is_absent |-> TRUE]

\* the rows of the members of after_map
after_members_metrics(event_type, before_snapshots, after_snapshots) ==
    LET after_keys == DictKeys(after_snapshots)
    IN [k \in 1..Len(after_keys) |->
           IF after_keys[k] \in MemberSet(before_snapshots)
           THEN existing_member_metrics(event_type,
                                        SnapOf(before_snapshots, after_keys[k]),
                                        SnapOf(after_snapshots, after_keys[k]))
           ELSE new_member_metrics(SnapOf(after_snapshots, after_keys[k]))]

event_metrics_list_after_only(event_type, before_snapshots, after_snapshots) ==
    after_members_metrics(event_type, before_snapshots, after_snapshots)

\* metrics_list: the members of after_map, then those only in before_map
event_metrics_list(event_type, before_snapshots, after_snapshots) ==
    LET left_keys == SelectSeq(DictKeys(before_snapshots),
                               LAMBDA m : m \notin MemberSet(after_snapshots))
    IN after_members_metrics(event_type, before_snapshots, after_snapshots)
       \o [k \in 1..Len(left_keys) |->
              left_member_metrics(SnapOf(before_snapshots, left_keys[k]))]

update_upload_ids(ev, before_upload_id, after_upload_id) ==
    [ev EXCEPT !.before_upload_id = Some(before_upload_id),
               !.after_upload_id = Some(after_upload_id)]
update_status(ev, status) == [ev EXCEPT !.status = status]
update_event_times(ev, event_start, event_end) ==
    [ev EXCEPT !.event_start = Some(event_start), !.event_end = Some(event_end)]

\* csv_upload_repository.get_by_id
upload_get_by_id(upload_rows, upload_id) ==
    IF upload_id \in {upload_rows[k].id : k \in 1..Len(upload_rows)}
    THEN Some(CHOOSE u \in {upload_rows[k] : k \in 1..Len(upload_rows)} : u.id = upload_id)
    ELSE None

delete_by_event_skipped(rows) == rows

\* battle_event_metrics_repository.delete_by_event
delete_by_event(rows) == <<>>

\* edb: the event row and its metric rows
process_event_snapshots(edb, snaps, upload_rows, before_upload_id, after_upload_id) ==
    LET analyzing == update_status(
                         update_upload_ids(edb.event, before_upload_id, after_upload_id),
                         "analyzing")
        before_upload == upload_get_by_id(upload_rows, before_upload_id)
        after_upload == upload_get_by_id(upload_rows, after_upload_id)
        timed == IF before_upload # None /\ after_upload # None
                 THEN update_event_times(analyzing, before_upload[1].snapshot_date,
                                         after_upload[1].snapshot_date)
                 ELSE analyzing
        metrics_list == event_metrics_list(edb.event.event_type,
                                           get_by_upload(snaps, before_upload_id),
                                           get_by_upload(snaps, after_upload_id))
        cleared == delete_by_event(edb.event_metrics)
    IN [event |-> update_status(timed, "completed"),
        event_metrics |-> IF metrics_list # <<>> THEN cleared \o metrics_list
                          ELSE cleared]

\* ------------------------------------------------------- event summary
\* battle_event_metrics_repository.get_by_event_with_member: the metric rows
\* of the event, each with the name of its member
MemberName(m) == <<"name", m>>
get_by_event_with_member(rows) ==
    [k \in 1..Len(rows) |-> [member_name |-> MemberName(rows[k].member_id)] @@ rows[k]]

RECURSIVE SumSeq(_)
SumSeq(values) ==
    IF values = <<>> THEN 0 ELSE values[1] + SumSeq(Tail(values))

CountIf(rows, Test(_)) == Cardinality({k \in 1..Len(rows) : Test(rows[k])})

\* max(rows, key=Key): the first row of the largest key; rows is not empty
FirstMax(rows, Key(_)) ==
    rows[CHOOSE k \in 1..Len(rows) :
            /\ \A j \in 1..Len(rows) : Key(rows[j]) <= Key(rows[k])
            /\ \A j \in 1..(k - 1) : Key(rows[j]) < Key(rows[k])]

\* Python divides two ints into the nearest binary double (53 significant
\* bits) and round(x, 1) rounds the exact value of that double, half to even.
\* A quotient that lies exactly between two tenths is therefore decided by the
\* side on which its double falls.  The operators below compute that side with
\* remainders only.

RECURSIVE Pow2(_)
Pow2(n) == IF n = 0 THEN 1 ELSE 2 * Pow2(n - 1)

RECURSIVE ExponentUp(_, _, _)
ExponentUp(num, den, e) ==
    IF num >= den * Pow2(e + 1) THEN ExponentUp(num, den, e + 1) ELSE e

RECURSIVE ExponentDown(_, _, _)
ExponentDown(num, den, k) ==
    IF num * Pow2(k) < den THEN ExponentDown(num, den, k + 1) ELSE k

\* floor(log2(num / den)) for num > 0: the binary exponent of the quotient.
FloatExponent(num, den) ==
    IF num >= den THEN ExponentUp(num, den, 0) ELSE 0 - ExponentDown(num, den, 0)

RECURSIVE Pow2Mod(_, _)
Pow2Mod(j, n) == IF j = 0 THEN 1 % n ELSE (2 * Pow2Mod(j - 1, n)) % n

\* (num * 2^j) mod n
ScaledMod(num, j, n) == ((num % n) * Pow2Mod(j, n)) % n

\* The double of num / den is num / den - FloatError(num, den) / den units in
\* the last place of the quotient: positive when the double lies below.
FloatError(num, den) ==
    LET j == 52 - FloatExponent(num, den)
        R == ScaledMod(num, j, den)
        odd == ScaledMod(num, j, 2 * den) >= den
    IN IF 2 * R < den THEN R
       ELSE IF 2 * R > den THEN R - den
       ELSE IF odd THEN R - den ELSE R

HalfEven(q) == q + (q % 2)

\* round(num / den, 1) in tenths, num >= 0, den > 0.
RoundTenths(num, den) ==
    LET q == (num * 10) \div den
        r == (num * 10) % den
    IN IF 2 * r > den THEN q + 1
       ELSE IF 2 * r < den THEN q
       ELSE LET err == FloatError(num, den)
            IN IF err > 0 THEN q
               ELSE IF err < 0 THEN q + 1
               ELSE HalfEven(q)

\* round(p / e * 100, 1) in tenths, 0 <= p, e > 0: the quotient is rounded to
\* a double, the product with 100 is rounded to a double again, and round()
\* works on that second double.
RoundPercentTenths(p, e) ==
    LET q == (p * 1000) \div e
        r == (p * 1000) % e
    IN IF 2 * r > e THEN q + 1
       ELSE IF 2 * r < e THEN q
       ELSE IF p = 0 THEN 0
       ELSE LET m == (2000 * p) \div e
                err == FloatError(p, e)
                e1 == FloatExponent(p, e)
                eT == FloatExponent(m, 20)
                ispow == IF eT >= 0 THEN m = 20 * Pow2(eT)
                                    ELSE m * Pow2(0 - eT) = 20
                e2 == IF ispow /\ err > 0 THEN eT - 1 ELSE eT
                c == Pow2(e2 - e1)
                a == ScaledMod(m, 52 - e2, 20)
                nodd == ScaledMod(m, 52 - e2, 40) >= 20
                D == 20 * e * c
                zn == a * e * c - 2000 * err
                k0 == IF zn >= 0 THEN zn \div D ELSE 0 - ((D - 1 - zn) \div D)
                rem == zn - k0 * D
                k == IF 2 * rem > D THEN k0 + 1
                     ELSE IF 2 * rem = D /\ ((k0 % 2 = 1) # nodd) THEN k0 + 1
                     ELSE k0
                s == 20 * k - a
            IN IF s > 0 THEN q + 1
               ELSE IF s < 0 THEN q
               ELSE HalfEven(q)

NoMvp ==
    [mvp_member_id |-> None, mvp_member_name |-> None, mvp_merit |-> None,
     contribution_mvp_member_id |-> None, contribution_mvp_name |-> None,
     contribution_mvp_score |-> None,
     assist_mvp_member_id |-> None, assist_mvp_name |-> None,
     assist_mvp_score |-> None,
     mvp_contribution |-> None, mvp_assist |-> None, mvp_combined_score |-> None,
     violator_count |-> 0]

\* lines 828-877: the MVP fields by category
category_mvp(rows, event_type) ==
    IF event_type = "siege"
    THEN LET contribution_candidates == SelectSeq(rows, LAMBDA m : m.contribution_diff > 0)
             assist_candidates == SelectSeq(rows, LAMBDA m : m.assist_diff > 0)
             top_contributor == FirstMax(contribution_candidates,
                                         LAMBDA m : m.contribution_diff)
             top_assister == FirstMax(assist_candidates, LAMBDA m : m.assist_diff)
             mvp == FirstMax(rows, LAMBDA m : m.contribution_diff + m.assist_diff)
             combined == mvp.contribution_diff + mvp.assist_diff
             with_contribution ==
                 IF contribution_candidates # <<>>
                 THEN [NoMvp EXCEPT
                          !.contribution_mvp_member_id = Some(top_contributor.member_id),
                          !.contribution_mvp_name = Some(top_contributor.member_name),
                          !.contribution_mvp_score = Some(top_contributor.contribution_diff)]
                 ELSE NoMvp
             with_assist ==
                 IF assist_candidates # <<>>
                 THEN [with_contribution EXCEPT
                          !.assist_mvp_member_id = Some(top_assister.member_id),
                          !.assist_mvp_name = Some(top_assister.member_name),
                          !.assist_mvp_score = Some(top_assister.assist_diff)]
                 ELSE with_contribution
         IN IF rows # <<>> /\ combined > 0
            THEN [with_assist EXCEPT !.mvp_contribution = Some(mvp.contribution_diff),
                                     !.mvp_assist = Some(mvp.assist_diff),
                                     !.mvp_combined_score = Some(combined)]
            ELSE with_assist
    ELSE IF event_type = "forbidden"
    THEN [NoMvp EXCEPT !.violator_count = CountIf(rows, LAMBDA m : m.power_diff > 0)]
    ELSE LET mvp == FirstMax(rows, LAMBDA m : m.merit_diff)
         IN IF rows # <<>> /\ mvp.merit_diff > 0
            THEN [NoMvp EXCEPT !.mvp_member_id = Some(mvp.member_id),
                               !.mvp_member_name = Some(mvp.member_name),
                               !.mvp_merit = Some(mvp.merit_diff)]
            ELSE NoMvp

\* _calculate_summary_from_metrics; rates and averages in tenths
calculate_summary_from_metrics(rows, event_type) ==
    IF rows = <<>>
    THEN [total_members |-> 0, participated_count |-> 0, absent_count |-> 0,
          new_member_count |-> 0, participation_rate |-> 0,
          total_merit |-> 0, total_assist |-> 0, total_contribution |-> 0,
          avg_merit |-> 0, avg_assist |-> 0, avg_contribution |-> 0] @@ NoMvp
    ELSE LET total_members == Len(rows)
             participated_count == CountIf(rows, LAMBDA m : m.participated)
             new_member_count == CountIf(rows, LAMBDA m : m.is_new_member)
             absent_count == CountIf(rows, LAMBDA m : m.is_absent)
             eligible_members == total_members - new_member_count
             total_merit == SumSeq([k \in 1..Len(rows) |-> rows[k].merit_diff])
             total_assist == SumSeq([k \in 1..Len(rows) |-> rows[k].assist_diff])
             total_contribution ==
                 SumSeq([k \in 1..Len(rows) |-> rows[k].contribution_diff])
         IN [total_members |-> total_members,
             participated_count |-> participated_count,
             absent_count |-> absent_count,
             new_member_count |-> new_member_count,
             participation_rate |->
                 IF eligible_members > 0
                 THEN RoundPercentTenths(participated_count, eligible_members) ELSE 0,
             total_merit |-> total_merit,
             total_assist |-> total_assist,
             total_contribution |-> total_contribution,
             avg_merit |-> IF participated_count > 0
                           THEN RoundTenths(total_merit, participated_count) ELSE 0,
             avg_assist |-> IF participated_count > 0
                            THEN RoundTenths(total_assist, participated_count) ELSE 0,
             avg_contribution |->
                 IF participated_count > 0
                 THEN RoundTenths(total_contribution, participated_count) ELSE 0]
            @@ category_mvp(rows, event_type)

SeqMin(values) == CHOOSE v \in {values[k] : k \in 1..Len(values)} :
                      \A k \in 1..Len(values) : v <= values[k]
SeqMax(values) == CHOOSE v \in {values[k] : k \in 1..Len(values)} :
                      \A k \in 1..Len(values) : v >= values[k]

\* _calculate_group_stats; rates and averages in tenths
calculate_group_stats(group_name, rows, event_type) ==
    LET eligible == SelectSeq(rows, LAMBDA m : ~m.is_new_member)
        member_count == Len(eligible)
        participated_count == CountIf(eligible, LAMBDA m : m.participated)
        absent_count == CountIf(eligible, LAMBDA m : m.is_absent)
        participants == SelectSeq(eligible, LAMBDA m : m.participated)
        merit_values == [k \in 1..Len(participants) |-> participants[k].merit_diff]
        contribution_values ==
            [k \in 1..Len(participants) |-> participants[k].contribution_diff]
        assist_values == [k \in 1..Len(participants) |-> participants[k].assist_diff]
        combined_values ==
            [k \in 1..Len(participants) |->
                participants[k].contribution_diff + participants[k].assist_diff]
        battle == event_type = "battle" /\ merit_values # <<>>
        siege == event_type = "siege" /\ contribution_values # <<>>
    IN [group_name |-> group_name,
        member_count |-> member_count,
        participated_count |-> participated_count,
        absent_count |-> absent_count,
        participation_rate |->
            IF member_count > 0
            THEN RoundPercentTenths(participated_count, member_count) ELSE 0,
        total_merit |-> IF battle THEN SumSeq(merit_values) ELSE 0,
        avg_merit |-> IF battle
                      THEN RoundTenths(SumSeq(merit_values), Len(merit_values)) ELSE 0,
        merit_min |-> IF battle THEN SeqMin(merit_values) ELSE 0,
        merit_max |-> IF battle THEN SeqMax(merit_values) ELSE 0,
        total_contribution |-> IF siege THEN SumSeq(contribution_values) ELSE 0,
        avg_contribution |->
            IF siege
            THEN RoundTenths(SumSeq(contribution_values), Len(contribution_values))
            ELSE 0,
        total_assist |-> IF siege THEN SumSeq(assist_values) ELSE 0,
        avg_assist |-> IF siege
                       THEN RoundTenths(SumSeq(assist_values), Len(assist_values))
                       ELSE 0,
        combined_min |-> IF siege THEN SeqMin(combined_values) ELSE 0,
        combined_max |-> IF siege THEN SeqMax(combined_values) ELSE 0,
        violator_count |->
            IF event_type = "forbidden"
            THEN CountIf(eligible, LAMBDA m : m.power_diff > 0) ELSE 0]

\* ---------------------------------------------------------------- handlers
Db == [periods |-> periods, metrics |-> metrics]

UploadIdsOf(rows) == {rows[k].id : k \in 1..Len(rows)}

\* csv_upload_repository.get_by_season returns the rows by snapshot_date, latest first
IsDescending(rows) ==
    \A k \in 1..(Len(rows) - 1) : rows[k].snapshot_date >= rows[k + 1].snapshot_date

InsertAt(rows, row, pos) ==
    SubSeq(rows, 1, pos - 1) \o <<row>> \o SubSeq(rows, pos, Len(rows))

RemoveId(rows, upload_id) == SelectSeq(rows, LAMBDA r : r.id # upload_id)

\* A call that has not started
\* a process_event_snapshots call that has not started
IdleEventCall == [pc |-> "idle", before_upload_id |-> None, after_upload_id |-> None,
                  event |-> None, before_snapshots |-> <<>>,
                  after_snapshots |-> <<>>, analyzing |-> FALSE]

\* call and result tell which request of the event returned in the last step
\* and what it returned; a step of the event's requests in which none returns
\* leaves both None
NoResponse == call' = None /\ result' = None

\* a request that ends with calculate_periods_for_season and has not arrived:
\* op names the request, the other fields are the locals of the call
IdleCall == [pc |-> "idle", op |-> "", sorted |-> <<>>, i |-> 0, deleted |-> FALSE,
             had |-> 0, period |-> None, created |-> <<>>]

Init ==
    /\ start_date \in {1}
    /\ NoAccount
    /\ uploads = <<>>
    /\ snapshots = [u \in UploadIds |-> <<>>]
    /\ periods = <<>>
    /\ metrics = <<>>
    /\ last_op = "init"
    /\ rb = [p \in Procs |-> IdleCall]
    /\ event = NewEvent("battle")
    /\ event_metrics = <<>>
    /\ eb = [p \in Procs |-> IdleEventCall]
    /\ call = None
    /\ result = None

\* POST /uploads: a CSV with snapshot_date t and the rows of Rosters[r] is
\* stored; the request goes on to calculate_periods_for_season
UploadCsv(p, t, r) ==
    /\ rb[p].pc = "idle"
    /\ Len(uploads) < MaxUploads
    /\ UploadId(t, r) \notin UploadIdsOf(uploads)
    /\ \E pos \in 1..(Len(uploads) + 1) :
          LET id == UploadId(t, r)
              rows == InsertAt(uploads, [id |-> id, snapshot_date |-> t], pos)
          IN /\ IsDescending(rows)
             /\ uploads' = rows
             /\ snapshots' = [snapshots EXCEPT ![id] = SnapshotRows(Rosters[r], id)]
    /\ rb' = [rb EXCEPT ![p] =
                 [IdleCall EXCEPT
                     !.pc = "called",
                     !.op = IF \E k \in 1..Len(uploads) : uploads[k].snapshot_date > t
                            THEN "upload_insert"   \* dated before an upload already stored
                            ELSE "upload"]]
    /\ UNCHANGED <<start_date, periods, metrics, last_op, event, event_metrics,
                   eb, call, result, rest_vars>>

\* DELETE /uploads/{upload_id}: the upload and (cascading) its snapshots are
\* deleted; the request goes on to calculate_periods_for_season
DeleteUpload(p, upload_id) ==
    /\ rb[p].pc = "idle"
    /\ upload_id \in UploadIdsOf(uploads)
    /\ uploads' = RemoveId(uploads, upload_id)
    /\ snapshots' = [snapshots EXCEPT ![upload_id] = <<>>]
    /\ rb' = [rb EXCEPT ![p] = [IdleCall EXCEPT !.pc = "called", !.op = "delete"]]
    /\ UNCHANGED <<start_date, periods, metrics, last_op, event, event_metrics,
                   eb, call, result, rest_vars>>

\* POST /periods/seasons/{season_id}/recalculate: the season is read, the
\* permission verified and calculate_periods_for_season called
RecalculateSeasonPeriods(p) ==
    /\ rb[p].pc = "idle"
    /\ rb' = [rb EXCEPT ![p] = [IdleCall EXCEPT !.pc = "called", !.op = "recalculate"]]
    /\ UNCHANGED <<start_date, uploads, snapshots, periods, metrics, last_op,
                   event, event_metrics, eb, call, result, rest_vars>>

\* metrics_repo.delete_by_alliance: every metrics row of the alliance
delete_by_alliance(db) == [db EXCEPT !.metrics = <<>>]

\* recalculate_all_periods for the alliance of the season, get_by_alliance:
\* the alliance has the one season
RecalculateAllPeriods(p) ==
    /\ rb[p].pc = "idle"
    /\ rb' = [rb EXCEPT ![p] =
                 [IdleCall EXCEPT !.pc = "delete_by_alliance", !.op = "recalculate_all"]]
    /\ UNCHANGED <<start_date, uploads, snapshots, periods, metrics, last_op,
                   event, event_metrics, eb, call, result, rest_vars>>

\* recalculate_all_periods, delete_by_alliance; calculate_periods_for_season
\* of the season follows
CallDeleteByAlliance(p) ==
    /\ rb[p].pc = "delete_by_alliance"
    /\ LET db == delete_by_alliance(Db)
       IN periods' = db.periods /\ metrics' = db.metrics
    /\ rb' = [rb EXCEPT ![p].pc = "called"]
    /\ UNCHANGED <<start_date, uploads, snapshots, last_op, event, event_metrics,
                   eb, call, result, rest_vars>>

\* ------------- calculate_periods_for_season, one repository call at a time
\* Nothing serializes two requests: between two awaited repository calls of
\* one call of calculate_periods_for_season, another request may run.
StepUploadRows ==
    {[id |-> UploadId(t, r), snapshot_date |-> t] : t \in Ticks, r \in 1..Len(Rosters)}
StepTables ==
    UNION {{rows \in [1..n -> StepUploadRows] :
                /\ IsDescending(rows)
                /\ \A a, b \in 1..n : a # b => rows[a].id # rows[b].id}
           : n \in 1..MaxStepUploads}
RosterIndex(upload_id) == ((upload_id - 1) % Len(Rosters)) + 1
SnapshotsOfTable(rows) ==
    [u \in UploadIds |->
        IF u \in UploadIdsOf(rows)
        THEN SnapshotRows(Rosters[RosterIndex(u)], u) ELSE <<>>]
EmptyDb == [periods |-> <<>>, metrics |-> <<>>]

\* A season with uploads whose periods were calculated before the last change
\* of the uploads (old: the uploads of that calculation)
InitSteps ==
    /\ start_date \in {1}
    /\ NoAccount
    /\ last_op = "init"
    /\ rb = [p \in Procs |-> IdleCall]
    /\ event = NewEvent("battle")
    /\ event_metrics = <<>>
    /\ eb = [p \in Procs |-> IdleEventCall]
    /\ call = None
    /\ result = None
    /\ \E rows \in StepTables :
          /\ uploads = rows
          /\ snapshots = SnapshotsOfTable(rows)
          /\ \E old \in {rows} \cup {RemoveId(rows, rows[k].id) : k \in 1..Len(rows)} :
                LET db == calculate_periods_for_season(
                              EmptyDb, SnapshotsOfTable(rows), start_date, old)
                IN periods = db.periods /\ metrics = db.metrics

\* The position after iteration i of the loop
AfterIteration(c) == IF c.i + 1 > Len(c.sorted) THEN "done" ELSE "period"

\* lines 58-69: the season and its uploads are read and sorted
CallStart(p) ==
    /\ rb[p].pc = "called"
    /\ rb' = [rb EXCEPT ![p] =
                IF uploads = <<>>
                THEN [@ EXCEPT !.pc = "done"]
                ELSE [@ EXCEPT !.pc = "delete",
                               !.sorted = SortedBySnapshotDate(uploads),
                               !.had = Len(periods)]]
    /\ UNCHANGED <<start_date, uploads, snapshots, periods, metrics, last_op,
                   event, event_metrics, eb, call, result, rest_vars>>

\* line 72: delete_by_season
CallDelete(p) ==
    /\ rb[p].pc = "delete"
    /\ LET db == delete_by_season(Db)
       IN periods' = db.periods /\ metrics' = db.metrics
    /\ rb' = [rb EXCEPT ![p].pc = "period", ![p].i = 1, ![p].deleted = TRUE]
    /\ UNCHANGED <<start_date, uploads, snapshots, last_op, event,
                   event_metrics, eb, call, result, rest_vars>>

\* lines 77-96 with 128-147 or 189-209: the days guard and period_repo.create
CallCreatePeriod(p) ==
    /\ rb[p].pc = "period"
    /\ LET c == rb[p]
           data == IF c.i = 1
                   THEN first_period_data(start_date, c.sorted[1], 1)
                   ELSE period_data(c.sorted[c.i - 1], c.sorted[c.i], PeriodNumber(c.i))
       IN IF data = None
          THEN /\ rb' = [rb EXCEPT ![p].pc = AfterIteration(c), ![p].i = c.i + 1]
               /\ UNCHANGED <<periods, metrics>>
          ELSE LET db == period_create(Db, data[1])
               IN /\ periods' = db.periods
                  /\ metrics' = db.metrics
                  /\ rb' = [rb EXCEPT ![p].pc = "metrics",
                                       ![p].period = Some(LastPeriod(db))]
    /\ UNCHANGED <<start_date, uploads, snapshots, last_op, event,
                   event_metrics, eb, call, result, rest_vars>>

\* lines 149-166 or 211-247: the snapshots are read and the metrics inserted;
\* the insert fails (foreign key) when the period row is gone
CallCreateMetrics(p) ==
    /\ rb[p].pc = "metrics"
    /\ LET c == rb[p]
           period == c.period[1]
           metrics_list ==
               IF c.i = 1
               THEN first_period_metrics_list(snapshots, period, c.sorted[1])
               ELSE period_metrics_list(snapshots, period,
                                        c.sorted[c.i - 1], c.sorted[c.i])
       IN IF metrics_list # <<>> /\ period.id \notin PeriodIds(periods)
          THEN /\ rb' = [rb EXCEPT ![p].pc = "failed"]
               /\ UNCHANGED <<periods, metrics>>
          ELSE LET db == metrics_create_batch(Db, metrics_list)
               IN /\ periods' = db.periods
                  /\ metrics' = db.metrics
                  /\ rb' = [rb EXCEPT ![p].pc = AfterIteration(c),
                                       ![p].i = c.i + 1,
                                       ![p].period = None,
                                       ![p].created = Append(c.created, period)]
    /\ UNCHANGED <<start_date, uploads, snapshots, last_op, event,
                   event_metrics, eb, call, result, rest_vars>>

\* a repository call of the running call raises (database or network error)
CallFail(p) ==
    /\ rb[p].pc \in {"delete", "period", "metrics"}
    /\ rb' = [rb EXCEPT ![p].pc = "failed"]
    /\ UNCHANGED <<start_date, uploads, snapshots, periods, metrics, last_op,
                   event, event_metrics, eb, call, result, rest_vars>>

\* the request is answered: the next one may arrive
CallReturn(p) ==
    /\ rb[p].pc = "done"
    /\ rb' = [rb EXCEPT ![p] = IdleCall]
    /\ last_op' = rb[p].op
    /\ UNCHANGED <<start_date, uploads, snapshots, periods, metrics, event,
                   event_metrics, eb, call, result, rest_vars>>

\* The requests of one client, one at a time: each is answered before the
\* next is sent
Next ==
    \/ \E t \in Ticks, r \in 1..Len(Rosters) : UploadCsv(1, t, r)
    \/ \E u \in UploadIds : DeleteUpload(1, u)
    \/ RecalculateSeasonPeriods(1)
    \/ RecalculateAllPeriods(1)
    \/ CallDeleteByAlliance(1)
    \/ CallStart(1)
    \/ CallDelete(1)
    \/ CallCreatePeriod(1)
    \/ CallCreateMetrics(1)
    \/ CallReturn(1)

Spec == Init /\ [][Next]_vars

\* Two requests for the same season at the same time
NextSteps ==
    \E p \in Procs :
        \/ RecalculateSeasonPeriods(p)
        \/ RecalculateAllPeriods(p)
        \/ CallDeleteByAlliance(p)
        \/ CallStart(p)
        \/ CallDelete(p)
        \/ CallCreatePeriod(p)
        \/ CallCreateMetrics(p)

SpecSteps == InitSteps /\ [][NextSteps]_vars

\* One request, whose repository calls may fail
NextFail ==
    \/ RecalculateSeasonPeriods(1)
    \/ CallStart(1)
    \/ CallDelete(1)
    \/ CallCreatePeriod(1)
    \/ CallCreateMetrics(1)
    \/ CallFail(1)

SpecFail == InitSteps /\ [][NextFail]_vars

\* ------------------------------------------- a season with a battle event
EventDb == [event |-> event, event_metrics |-> event_metrics]

InitEvent ==
    /\ start_date \in {1}
    /\ NoAccount
    /\ uploads = <<>>
    /\ snapshots = [u \in UploadIds |-> <<>>]
    /\ periods = <<>>
    /\ metrics = <<>>
    /\ last_op = "init"
    /\ rb = [p \in Procs |-> IdleCall]
    /\ event \in {NewEvent(event_type) : event_type \in EventCategories}
    /\ event_metrics = <<>>
    /\ eb = [p \in Procs |-> IdleEventCall]
    /\ call = None
    /\ result = None

\* ---------------- process_event_snapshots, one repository call at a time
\* A season that holds one upload of every roster, on consecutive upload
\* times, in any order of the rosters
PairTables ==
    {[k \in 1..Len(Rosters) |->
         [id |-> UploadId(Len(Rosters) - k + 1, f[k]),
          snapshot_date |-> Len(Rosters) - k + 1]] :
        f \in {g \in [1..Len(Rosters) -> 1..Len(Rosters)] :
                  \A a, b \in 1..Len(Rosters) : a # b => g[a] # g[b]}}

InitEventSteps ==
    /\ start_date \in {1}
    /\ NoAccount
    /\ last_op = "init"
    /\ rb = [p \in Procs |-> IdleCall]
    /\ eb = [p \in Procs |-> IdleEventCall]
    /\ call = None
    /\ result = None
    /\ event \in {NewEvent(event_type) : event_type \in EventCategories}
    /\ event_metrics = <<>>
    /\ \E rows \in PairTables :
          /\ uploads = rows
          /\ snapshots = SnapshotsOfTable(rows)
          /\ LET db == calculate_periods_for_season(
                           EmptyDb, SnapshotsOfTable(rows), start_date, rows)
             IN periods = db.periods /\ metrics = db.metrics

\* lines 244-251: the event is read (ValueError when the row is gone), the
\* quota is verified
EventCallStart(p, before_upload_id, after_upload_id) ==
    /\ eb[p].pc = "idle"
    /\ before_upload_id \in UploadIdsOf(uploads)
    /\ after_upload_id \in UploadIdsOf(uploads)
    /\ eb' = [eb EXCEPT ![p] =
                 IF event = None
                 THEN [@ EXCEPT !.pc = "failed",
                                !.before_upload_id = Some(before_upload_id),
                                !.after_upload_id = Some(after_upload_id)]
                 ELSE [@ EXCEPT !.pc = "upload_ids",
                                !.before_upload_id = Some(before_upload_id),
                                !.after_upload_id = Some(after_upload_id),
                                !.event = Some(event)]]
    /\ UNCHANGED <<start_date, uploads, snapshots, periods, metrics, last_op, rb,
                   event, event_metrics, rest_vars>>
    /\ NoResponse

\* line 253: update_upload_ids.  An update of the event row raises when the
\* row is gone (the repository expects the updated row back)
EventCallUploadIds(p) ==
    /\ eb[p].pc = "upload_ids"
    /\ event' = IF event = None THEN event
                ELSE update_upload_ids(event, eb[p].before_upload_id[1],
                                       eb[p].after_upload_id[1])
    /\ eb' = [eb EXCEPT ![p].pc = IF event = None THEN "failed" ELSE "analyzing"]
    /\ UNCHANGED <<start_date, uploads, snapshots, periods, metrics, last_op, rb,
                   event_metrics, rest_vars>>
    /\ NoResponse

\* line 254: update_status(ANALYZING)
EventCallAnalyzing(p) ==
    /\ eb[p].pc = "analyzing"
    /\ event' = IF event = None THEN event ELSE update_status(event, "analyzing")
    /\ eb' = [eb EXCEPT ![p].pc = IF event = None THEN "failed" ELSE "times",
                        ![p].analyzing = event # None]
    /\ UNCHANGED <<start_date, uploads, snapshots, periods, metrics, last_op, rb,
                   event_metrics, rest_vars>>
    /\ NoResponse

\* lines 257-265: the two uploads are read, update_event_times
EventCallTimes(p) ==
    /\ eb[p].pc = "times"
    /\ LET before_upload == upload_get_by_id(uploads, eb[p].before_upload_id[1])
           after_upload == upload_get_by_id(uploads, eb[p].after_upload_id[1])
           timed == before_upload # None /\ after_upload # None
       IN /\ event' = IF timed /\ event # None
                      THEN update_event_times(event, before_upload[1].snapshot_date,
                                              after_upload[1].snapshot_date)
                      ELSE event
          /\ eb' = [eb EXCEPT ![p].pc = IF timed /\ event = None
                                        THEN "failed" ELSE "snapshots"]
    /\ UNCHANGED <<start_date, uploads, snapshots, periods, metrics, last_op, rb,
                   event_metrics, rest_vars>>
    /\ NoResponse

\* lines 268-273: the snapshots of both uploads are read
EventCallSnapshots(p) ==
    /\ eb[p].pc = "snapshots"
    /\ eb' = [eb EXCEPT
                ![p].pc = "delete",
                ![p].before_snapshots = get_by_upload(snapshots, eb[p].before_upload_id[1]),
                ![p].after_snapshots = get_by_upload(snapshots, eb[p].after_upload_id[1])]
    /\ UNCHANGED <<start_date, uploads, snapshots, periods, metrics, last_op, rb,
                   event, event_metrics, rest_vars>>
    /\ NoResponse

\* line 276: delete_by_event
EventCallDelete(p) ==
    /\ eb[p].pc = "delete"
    /\ event_metrics' = delete_by_event(event_metrics)
    /\ eb' = [eb EXCEPT ![p].pc = "insert"]
    /\ UNCHANGED <<start_date, uploads, snapshots, periods, metrics, last_op, rb,
                   event, rest_vars>>
    /\ NoResponse

\* lines 279-365: metrics_list is built and, when not empty, inserted; the
\* insert fails (foreign key) when the event row is gone
EventCallInsert(p) ==
    /\ eb[p].pc = "insert"
    /\ LET metrics_list == event_metrics_list(eb[p].event[1].event_type,
                                              eb[p].before_snapshots,
                                              eb[p].after_snapshots)
       IN /\ event_metrics' = IF metrics_list # <<>> /\ event # None
                              THEN event_metrics \o metrics_list
                              ELSE event_metrics
          /\ eb' = [eb EXCEPT ![p].pc = IF metrics_list # <<>> /\ event = None
                                        THEN "failed" ELSE "complete"]
    /\ UNCHANGED <<start_date, uploads, snapshots, periods, metrics, last_op, rb,
                   event, rest_vars>>
    /\ NoResponse

\* line 368: update_status(COMPLETED)
EventCallComplete(p) ==
    /\ eb[p].pc = "complete"
    /\ event' = IF event = None THEN event ELSE update_status(event, "completed")
    /\ eb' = [eb EXCEPT ![p].pc = IF event = None THEN "failed" ELSE "done"]
    /\ UNCHANGED <<start_date, uploads, snapshots, periods, metrics, last_op, rb,
                   event_metrics, rest_vars>>
    /\ NoResponse

EventCallFailRollback(p) ==
    /\ eb[p].pc \in {"upload_ids", "analyzing", "times", "snapshots",
                      "delete", "insert", "complete"}
    /\ eb' = [eb EXCEPT ![p].pc = "failed"]
    /\ event' = update_status(event, eb[p].event[1].status)
    /\ UNCHANGED <<start_date, uploads, snapshots, periods, metrics, last_op, rb,
                   event_metrics, rest_vars>>
    /\ NoResponse

\* an awaited call of the running call raises: the exception leaves
\* process_event_snapshots, which has no handler
EventCallFail(p) ==
    /\ eb[p].pc \in {"upload_ids", "analyzing", "times", "snapshots",
                      "delete", "insert", "complete"}
    /\ eb' = [eb EXCEPT ![p].pc = "failed"]
    /\ UNCHANGED <<start_date, uploads, snapshots, periods, metrics, last_op, rb,
                   event, event_metrics, rest_vars>>
    /\ NoResponse

\* the request is over; the next one may start
EventCallReturn(p) ==
    /\ eb[p].pc \in {"done", "failed"}
    /\ eb' = [eb EXCEPT ![p] = IdleEventCall]
    /\ UNCHANGED <<start_date, uploads, snapshots, periods, metrics, last_op, rb,
                   event, event_metrics, rest_vars>>
    /\ NoResponse

\* One request at a time, whose repository calls may fail
NextEventFail ==
    \/ \E b, a \in UploadIds : EventCallStart(1, b, a)
    \/ EventCallUploadIds(1)
    \/ EventCallAnalyzing(1)
    \/ EventCallTimes(1)
    \/ EventCallSnapshots(1)
    \/ EventCallDelete(1)
    \/ EventCallInsert(1)
    \/ EventCallComplete(1)
    \/ EventCallFail(1)
    \/ EventCallReturn(1)

SpecEventFail == InitEventSteps /\ [][NextEventFail]_vars

\* POST /uploads while the season holds fewer than MaxStepUploads uploads
EventUploadCsv(t, r) ==
    /\ Len(uploads) < MaxStepUploads
    /\ UploadCsv(1, t, r)

\* Uploads, rebuilds and processings of the event by one client, one request
\* at a time: each is answered before the next is sent
NextEvent ==
    \/ eb[1].pc = "idle" /\ \E t \in Ticks, r \in 1..Len(Rosters) : EventUploadCsv(t, r)
    \/ eb[1].pc = "idle" /\ RecalculateSeasonPeriods(1)
    \/ CallStart(1)
    \/ CallDelete(1)
    \/ CallCreatePeriod(1)
    \/ CallCreateMetrics(1)
    \/ CallReturn(1)
    \/ rb[1].pc = "idle" /\ \E b, a \in UploadIds : EventCallStart(1, b, a)
    \/ EventCallUploadIds(1)
    \/ EventCallAnalyzing(1)
    \/ EventCallTimes(1)
    \/ EventCallSnapshots(1)
    \/ EventCallDelete(1)
    \/ EventCallInsert(1)
    \/ EventCallComplete(1)
    \/ EventCallReturn(1)

SpecEvent == InitEvent /\ [][NextEvent]_vars

\* Two requests for the same event at the same time, one per worker, whose
\* repository calls may fail
NextEventOverlap ==
    \E p \in Procs :
        \/ \E b, a \in UploadIds : EventCallStart(p, b, a)
        \/ EventCallUploadIds(p)
        \/ EventCallAnalyzing(p)
        \/ EventCallTimes(p)
        \/ EventCallSnapshots(p)
        \/ EventCallDelete(p)
        \/ EventCallInsert(p)
        \/ EventCallComplete(p)
        \/ EventCallFail(p)

SpecEventOverlap == InitEventSteps /\ [][NextEventOverlap]_vars

\* ----------------------------------------------------- editing the event
\* PATCH of the event, one awaited call per step.  The user is an owner of
\* the alliance and the quota is active, so the two checks pass.  last_op
\* tells how the call ended: "update_event" when it returned, otherwise the
\* exception it raised.

\* repository update with the fields update_event lets through: the row
\* keeps no name and no description, an event_type of None is left out of
\* the update
update_event(ev, event_type) ==
    IF event_type = None THEN ev ELSE [ev EXCEPT !.event_type = event_type[1]]

\* the fields of a PATCH request: a new event_type, a new name, or nothing
UpdateRequests ==
    {[event_type |-> Some(c), name |-> None] : c \in EventCategories}
        \cup {[event_type |-> None, name |-> name] : name \in {None, Some("name")}}

UpdateFrame ==
    /\ UNCHANGED <<start_date, uploads, snapshots, periods, metrics, rb,
                   event_metrics, eb, event_call_vars, account_vars>>
    /\ NoResponse

\* update_event, get_by_id: ValueError when the row is gone
UpdateEventGetById(event_type, name) ==
    /\ uc.pc = "idle"
    /\ uc' = IF event = None THEN IdleUpdateCall
             ELSE [pc |-> "get_user_role", event_type |-> event_type, name |-> name]
    /\ last_op' = IF event = None THEN "update_event ValueError" ELSE last_op
    /\ UNCHANGED event
    /\ UpdateFrame

\* update_event, get_user_role
UpdateEventGetUserRole ==
    /\ uc.pc = "get_user_role"
    /\ uc' = [uc EXCEPT !.pc = "require_active_quota"]
    /\ UNCHANGED <<event, last_op>>
    /\ UpdateFrame

\* update_event, require_active_quota
UpdateEventRequireActiveQuota ==
    /\ uc.pc = "require_active_quota"
    /\ uc' = [uc EXCEPT !.pc = "update"]
    /\ UNCHANGED <<event, last_op>>
    /\ UpdateFrame

\* update_event, event_repo.update: the event row is written and nothing
\* else.  Without a field to write the repository reads the row instead
\* (ValueError when it is gone); the update of a row that is gone writes
\* nothing and raises RepositoryError
UpdateEventUpdate ==
    /\ uc.pc = "update"
    /\ uc' = IdleUpdateCall
    /\ event' = IF event = None THEN event ELSE update_event(event, uc.event_type)
    /\ last_op' = IF event # None THEN "update_event"
                  ELSE IF uc.event_type = None /\ uc.name = None
                  THEN "update_event ValueError"
                  ELSE "update_event RepositoryError"
    /\ UpdateFrame

\* ------------------------------------------- direct calls of service functions
\* No stored data: the functions called below read their arguments only
NoSeason ==
    /\ start_date \in {1}
    /\ NoAccount
    /\ uploads = <<>>
    /\ snapshots = [u \in UploadIds |-> <<>>]
    /\ periods = <<>>
    /\ metrics = <<>>
    /\ last_op = "init"
    /\ rb = [p \in Procs |-> IdleCall]
    /\ event = NewEvent("battle")
    /\ event_metrics = <<>>
    /\ eb = [p \in Procs |-> IdleEventCall]

\* diffs as process_event_snapshots passes them: clamped diffs, signed power
ParticipationCalls ==
    [event_type : EventCategories,
     contribution_diff : 0..MaxCounter,
     merit_diff : 0..MaxCounter,
     assist_diff : 0..MaxCounter,
     power_diff : (0 - MaxCounter)..MaxCounter]

InitParticipation ==
    /\ NoSeason
    /\ call \in ParticipationCalls
    /\ result = None

\* _determine_participation(event_type, contribution_diff, merit_diff,
\* assist_diff, power_diff)
CallDetermineParticipation ==
    /\ result = None
    /\ result' = Some(determine_participation(
                          call.event_type, call.contribution_diff,
                          call.merit_diff, call.assist_diff, call.power_diff))
    /\ UNCHANGED <<start_date, uploads, snapshots, periods, metrics, last_op, rb,
                   event, event_metrics, eb, call, rest_vars>>

NextParticipation == CallDetermineParticipation

SpecParticipation == InitParticipation /\ [][NextParticipation]_vars

\* A season of one member and two uploads: the days of the uploads (day 1 is
\* the season's start_date) and the member's total_contribution in each
ScenarioDays == {1, 2, 8, 15}
ScenarioTotals == {0, 1, 5, 7000, 12000}
ScenarioCalls ==
    {c \in [first_day : ScenarioDays, second_day : ScenarioDays,
             first_total : ScenarioTotals, second_total : ScenarioTotals] :
        c.first_day <= c.second_day}

\* csv_uploads rows of the scenario, latest first; upload times are midnights
ScenarioUploads(c) ==
    << [id |-> 2, snapshot_date |-> 2 * c.second_day],
       [id |-> 1, snapshot_date |-> 2 * c.first_day] >>
\* member_snapshots rows of the scenario: the member's row in each upload
ScenarioSnapshots(c) ==
    [u \in UploadIds |->
        IF u \in {1, 2}
        THEN SnapshotRows(<< Snap("m1", IF u = 1 THEN c.first_total ELSE c.second_total,
                                  0, 0, 0, 1, 1) >>, u)
        ELSE <<>>]

\* The season of a scenario before its periods were calculated
InitScenario ==
    /\ start_date \in {1}
    /\ NoAccount
    /\ last_op = "init"
    /\ rb = [p \in Procs |-> IdleCall]
    /\ event = NewEvent("battle")
    /\ event_metrics = <<>>
    /\ eb = [p \in Procs |-> IdleEventCall]
    /\ call = None
    /\ result = None
    /\ periods = <<>>
    /\ metrics = <<>>
    /\ \E c \in ScenarioCalls :
          /\ uploads = ScenarioUploads(c)
          /\ snapshots = ScenarioSnapshots(c)

\* calculate_periods_for_season on the scenario's season, one repository call
\* at a time; the requests of one client, each answered before the next
NextScenario ==
    \/ RecalculateSeasonPeriods(1)
    \/ CallStart(1)
    \/ CallDelete(1)
    \/ CallCreatePeriod(1)
    \/ CallCreateMetrics(1)
    \/ CallReturn(1)

SpecScenario == InitScenario /\ [][NextScenario]_vars

\* ------------------------------------------------- group analytics
DefaultGroupName == "ungrouped"

\* battle_event_metrics_repository.get_by_event_with_member_and_group: the
\* metric rows of the event, each with the name of its member and the name of
\* the group the member is in (groups, by member_id; None without group)
get_by_event_with_member_and_group(rows, groups) ==
    [k \in 1..Len(rows) |->
        [member_name |-> MemberName(rows[k].member_id),
         group_name |-> groups[rows[k].member_id]] @@ rows[k]]

\* list.sort(key=..., reverse=True) on <<key, item>> pairs: descending by key,
\* pairs of equal keys stay in their order
InsertDescBeforeEqual(pair, sorted) ==
    LET before == SelectSeq(sorted, LAMBDA q : q[1] > pair[1])
        after == SelectSeq(sorted, LAMBDA q : q[1] <= pair[1])
    IN before \o <<pair>> \o after

InsertDesc(pair, sorted) ==
    LET before == SelectSeq(sorted, LAMBDA q : q[1] >= pair[1])
        after == SelectSeq(sorted, LAMBDA q : q[1] < pair[1])
    IN before \o <<pair>> \o after

RECURSIVE SortDesc(_)
SortDesc(pairs) ==
    IF pairs = <<>> THEN <<>>
    ELSE InsertDesc(pairs[Len(pairs)], SortDesc(SubSeq(pairs, 1, Len(pairs) - 1)))

Items(pairs) == [k \in 1..Len(pairs) |-> pairs[k][2]]

\* xs[:n]
Take(xs, n) == SubSeq(xs, 1, IF Len(xs) < n THEN Len(xs) ELSE n)

\* m.group_name or the default name: None and the empty string are both falsy
GroupNameOf(m) ==
    IF m.group_name = None \/ m.group_name[1] = "" THEN DefaultGroupName
    ELSE m.group_name[1]

\* the keys of the groups dict, in the order of their first row
RECURSIVE GroupNames(_)
GroupNames(rows) ==
    IF rows = <<>> THEN <<>>
    ELSE LET init == GroupNames(SubSeq(rows, 1, Len(rows) - 1))
             g == GroupNameOf(rows[Len(rows)])
         IN IF \E k \in 1..Len(init) : init[k] = g THEN init ELSE Append(init, g)

\* lines 631-633: the sort key of a group's stats
GroupSortKey(stats, event_type) ==
    IF event_type = "siege" THEN stats.total_contribution + stats.total_assist
    ELSE IF event_type = "forbidden" THEN stats.violator_count
    ELSE stats.total_merit

\* lines 613-633
sorted_group_stats(rows, event_type) ==
    LET names == GroupNames(rows)
        stats == [k \in 1..Len(names) |->
                    calculate_group_stats(
                        names[k],
                        SelectSeq(rows, LAMBDA m : GroupNameOf(m) = names[k]),
                        event_type)]
    IN Items(SortDesc([k \in 1..Len(stats) |->
                          <<GroupSortKey(stats[k], event_type), stats[k]>>]))

\* lines 641-704: a ranking of the candidates by score, cut at top_n
\* (score is the key the list was sorted by: merit_diff, contribution_diff or
\* assist_diff of a TopMemberItem, power_diff of a ViolatorItem)
RankedItems(scored, top_n) ==
    LET ranked == Take(SortDesc(scored), top_n)
    IN [i \in 1..Len(ranked) |->
           [rank |-> i,
            member_name |-> ranked[i][2].member_name,
            group_name |-> ranked[i][2].group_name,
            score |-> ranked[i][1]]]

ScoredBy(rows, field) == [k \in 1..Len(rows) |-> <<rows[k][field], rows[k]>>]

\* get_event_group_analytics once the event row is read: rows is what
\* get_by_event_with_member_and_group returned (None when it is empty),
\* summary_rows what get_by_event_with_member returned after it
get_event_group_analytics(rows, summary_rows, event_type, top_n) ==
    IF rows = <<>> THEN None
    ELSE Some(
        [summary |-> calculate_summary_from_metrics(summary_rows, event_type),
         group_stats |-> sorted_group_stats(rows, event_type),
         top_members |->
            IF event_type = "battle"
            THEN RankedItems(ScoredBy(SelectSeq(rows, LAMBDA m : m.participated),
                                      "merit_diff"), top_n)
            ELSE <<>>,
         top_contributors |->
            IF event_type = "siege"
            THEN RankedItems(ScoredBy(SelectSeq(rows, LAMBDA m : m.contribution_diff > 0),
                                      "contribution_diff"), top_n)
            ELSE <<>>,
         top_assisters |->
            IF event_type = "siege"
            THEN RankedItems(ScoredBy(SelectSeq(rows, LAMBDA m : m.assist_diff > 0),
                                      "assist_diff"), top_n)
            ELSE <<>>,
         violators |->
            IF event_type = "forbidden"
            THEN RankedItems(ScoredBy(SelectSeq(rows, LAMBDA m : m.power_diff > 0),
                                      "power_diff"), top_n)
            ELSE <<>>])

\* ------------------------------------------------- reading an event's results
\* A reader awaits the event row first and the metric rows after it; between
\* two awaits any other request may run.  sc, gc and dc keep what a request
\* in progress has read; in the step in which it returns, call tells which
\* request it was and what it had read, and result is its response:
\* Some(None) when it raised ValueError or returned None.
ReadFrame ==
    UNCHANGED <<start_date, uploads, snapshots, periods, metrics, last_op, rb,
                eb, uc, account_vars>>

\* the call that returned: fn, whether it found the event, its event_type
\* and top_n, the rows get_by_event_with_member_and_group gave it (metrics)
\* and the rows get_by_event_with_member gave it (summary_metrics)
Returned(fn, found, event_type, top_n, rows, summary_rows) ==
    [fn |-> fn, found |-> found, event_type |-> event_type, top_n |-> top_n,
     metrics |-> rows, summary_metrics |-> summary_rows]

\* GET /events/{event_id}/summary (get_event_summary), get_by_id: the
\* event_type of the event row, ValueError when the row is gone
GetEventSummaryGetById ==
    /\ sc.pc = "idle"
    /\ IF event = None
       THEN /\ call' = Returned("summary", FALSE, "", 0, <<>>, <<>>)
            /\ result' = Some(None)
            /\ UNCHANGED sc
       ELSE /\ sc' = [pc |-> "metrics", event_type |-> event.event_type]
            /\ NoResponse
    /\ UNCHANGED <<event, event_metrics, gc, dc>>
    /\ ReadFrame

\* get_event_summary, _calculate_event_summary: get_by_event_with_member and
\* the summary of the rows stored now, for the event_type read before
GetEventSummaryMetrics ==
    /\ sc.pc = "metrics"
    /\ LET rows == get_by_event_with_member(event_metrics)
       IN /\ call' = Returned("summary", TRUE, sc.event_type, 0, <<>>, rows)
          /\ result' = Some(calculate_summary_from_metrics(rows, sc.event_type))
    /\ sc' = IdleSummaryCall
    /\ UNCHANGED <<event, event_metrics, gc, dc>>
    /\ ReadFrame

\* get_event_group_analytics, get_by_id: the event_type of the event row,
\* None when the row is gone
GetEventGroupAnalyticsGetById(top_n) ==
    /\ gc.pc = "idle"
    /\ IF event = None
       THEN /\ call' = Returned("group_analytics", FALSE, "", top_n, <<>>, <<>>)
            /\ result' = Some(None)
            /\ UNCHANGED gc
       ELSE /\ gc' = [pc |-> "metrics", top_n |-> top_n,
                      event_type |-> event.event_type, metrics |-> <<>>]
            /\ NoResponse
    /\ UNCHANGED <<event, event_metrics, sc, dc>>
    /\ ReadFrame

\* get_event_group_analytics, get_by_event_with_member_and_group: the rows
\* stored now, each with the group its member is in (groups); None without
\* rows
GetEventGroupAnalyticsMetrics(groups) ==
    /\ gc.pc = "metrics"
    /\ LET rows == get_by_event_with_member_and_group(event_metrics, groups)
       IN IF rows = <<>>
          THEN /\ call' = Returned("group_analytics", TRUE, gc.event_type, gc.top_n,
                                   <<>>, <<>>)
               /\ result' = Some(None)
               /\ gc' = IdleAnalyticsCall
          ELSE /\ gc' = [gc EXCEPT !.pc = "summary", !.metrics = rows]
               /\ NoResponse
    /\ UNCHANGED <<event, event_metrics, sc, dc>>
    /\ ReadFrame

\* get_event_group_analytics, _calculate_event_summary and the rest: the
\* summary is of the rows stored now, the group stats and the rankings are
\* of the rows read before
GetEventGroupAnalyticsSummary ==
    /\ gc.pc = "summary"
    /\ LET summary_rows == get_by_event_with_member(event_metrics)
       IN /\ call' = Returned("group_analytics", TRUE, gc.event_type, gc.top_n,
                              gc.metrics, summary_rows)
          /\ result' = Some(get_event_group_analytics(
                                gc.metrics, summary_rows, gc.event_type, gc.top_n))
    /\ gc' = IdleAnalyticsCall
    /\ UNCHANGED <<event, event_metrics, sc, dc>>
    /\ ReadFrame

\* DELETE of the event (delete_event), get_by_id: ValueError when the row is
\* gone
DeleteEventGetById(p) ==
    /\ dc[p].pc = "idle"
    /\ IF event = None
       THEN /\ call' = Returned("delete_event", FALSE, "", 0, <<>>, <<>>)
            /\ result' = Some(None)
            /\ UNCHANGED dc
       ELSE /\ dc' = [dc EXCEPT ![p].pc = "require_active_quota"]
            /\ NoResponse
    /\ UNCHANGED <<event, event_metrics, sc, gc>>
    /\ ReadFrame

\* delete_event, require_active_quota: the quota is active
DeleteEventRequireActiveQuota(p) ==
    /\ dc[p].pc = "require_active_quota"
    /\ dc' = [dc EXCEPT ![p].pc = "delete"]
    /\ NoResponse
    /\ UNCHANGED <<event, event_metrics, sc, gc>>
    /\ ReadFrame

\* delete_event, event_repo.delete: the event row goes and, by CASCADE, its
\* metric rows; a row that is gone already is no error.  The call returns
\* True
DeleteEventDelete(p) ==
    /\ dc[p].pc = "delete"
    /\ event' = None
    /\ event_metrics' = <<>>
    /\ dc' = [dc EXCEPT ![p] = IdleDeleteCall]
    /\ call' = Returned("delete_event", TRUE, "", 0, <<>>, <<>>)
    /\ result' = Some(Some(TRUE))
    /\ UNCHANGED <<sc, gc>>
    /\ ReadFrame

\* top_n: int = 5
DefaultTopN == 5
\* the group a member of the season is in: one group, or none
MemberGroupNames == {None, Some("g1")}

\* One request processes the event, step by step, while readers read it and
\* requests delete it
NextSummary ==
    \/ \E b, a \in UploadIds : EventCallStart(1, b, a)
    \/ EventCallUploadIds(1)
    \/ EventCallAnalyzing(1)
    \/ EventCallTimes(1)
    \/ EventCallSnapshots(1)
    \/ EventCallDelete(1)
    \/ EventCallInsert(1)
    \/ EventCallComplete(1)
    \/ EventCallReturn(1)
    \/ GetEventSummaryGetById
    \/ GetEventSummaryMetrics
    \/ GetEventGroupAnalyticsGetById(DefaultTopN)
    \/ \E groups \in [MemberIds -> MemberGroupNames] :
          GetEventGroupAnalyticsMetrics(groups)
    \/ GetEventGroupAnalyticsSummary
    \/ \E p \in Procs :
          \/ DeleteEventGetById(p)
          \/ DeleteEventRequireActiveQuota(p)
          \/ DeleteEventDelete(p)

SpecSummary == InitEventSteps /\ [][NextSummary]_vars

\* The event is processed step by step, edited and read
NextEventUpdate ==
    \/ \E b, a \in UploadIds : EventCallStart(1, b, a)
    \/ EventCallUploadIds(1)
    \/ EventCallAnalyzing(1)
    \/ EventCallTimes(1)
    \/ EventCallSnapshots(1)
    \/ EventCallDelete(1)
    \/ EventCallInsert(1)
    \/ EventCallComplete(1)
    \/ EventCallReturn(1)
    \/ \E update_data \in UpdateRequests :
          UpdateEventGetById(update_data.event_type, update_data.name)
    \/ UpdateEventGetUserRole
    \/ UpdateEventRequireActiveQuota
    \/ UpdateEventUpdate
    \/ GetEventSummaryGetById
    \/ GetEventSummaryMetrics
    \/ DeleteEventGetById(1)
    \/ DeleteEventRequireActiveQuota(1)
    \/ DeleteEventDelete(1)

SpecEventUpdate == InitEventSteps /\ [][NextEventUpdate]_vars

\* ------------------------------------- group analytics of many rows
\* Metric rows of an event whose members are 1..MaxRows: the k-th row is of
\* member k; its merit and contribution are scores[k], its assist the
\* complement, its power change scores[k] - 1
AnalyticsMemberIds == 1..MaxRows
AnalyticsGroupNames == {None, Some(""), Some("g1")}
AnalyticsMetrics(scores) ==
    [k \in 1..Len(scores) |->
        [member_id |-> k,
         contribution_diff |-> scores[k],
         merit_diff |-> scores[k],
         assist_diff |-> MaxCounter - scores[k],
         donation_diff |-> 0,
         power_diff |-> scores[k] - 1,
         participated |-> scores[k] > 0,
         is_new_member |-> FALSE,
         is_absent |-> scores[k] = 0]]

\* An event of any category with up to MaxRows metric rows
InitAnalytics ==
    /\ start_date \in {1}
    /\ NoAccount
    /\ uploads = <<>>
    /\ snapshots = [u \in UploadIds |-> <<>>]
    /\ periods = <<>>
    /\ metrics = <<>>
    /\ last_op = "init"
    /\ rb = [p \in Procs |-> IdleCall]
    /\ eb = [p \in Procs |-> IdleEventCall]
    /\ call = None
    /\ result = None
    /\ event \in {NewEvent(event_type) : event_type \in EventCategories}
    /\ event_metrics \in
          {AnalyticsMetrics(scores) :
              scores \in UNION {[1..n -> 0..MaxCounter] : n \in 0..MaxRows}}

\* The analytics of the event are read while a request deletes the event
NextAnalytics ==
    \/ \E top_n \in 1..MaxCounter : GetEventGroupAnalyticsGetById(top_n)
    \/ \E groups \in [AnalyticsMemberIds -> AnalyticsGroupNames] :
          GetEventGroupAnalyticsMetrics(groups)
    \/ GetEventGroupAnalyticsSummary
    \/ DeleteEventGetById(1)
    \/ DeleteEventRequireActiveQuota(1)
    \/ DeleteEventDelete(1)

SpecAnalytics == InitAnalytics /\ [][NextAnalytics]_vars

\* ------------------------------------------------------- seasons and quota
\* The seasons of one alliance, created one after the other with adjacent
\* date ranges; the user is an owner of the alliance.  Dates are day numbers.

\* date(2999, 12, 31): the end used for a season without end_date
far_future == 365000

\* False where _validate_season_duration raises
validate_season_duration(start, end) ==
    end = None \/ end[1] - start <= MAX_SEASON_DAYS

check_dates_overlap(start_a, end_a, start_b, end_b) ==
    LET actual_end_a == IF end_a # None THEN end_a[1] ELSE far_future
        actual_end_b == IF end_b # None THEN end_b[1] ELSE far_future
    IN start_a < actual_end_b /\ start_b < actual_end_a

\* False where _validate_no_date_overlap raises: all_seasons is what
\* get_by_alliance returned
validate_no_date_overlap(all_seasons, start, end, exclude_season_id) ==
    \A s \in SeasonIds \ {exclude_season_id} :
        all_seasons[s].exists
        => ~check_dates_overlap(start, end, all_seasons[s].start_date,
                                all_seasons[s].end_date)

calculate_available_seasons(a) == Max(0, a.purchased_seasons - a.used_seasons)

get_activated_seasons_count(ss) ==
    Cardinality({s \in SeasonIds :
                   /\ ss[s].exists
                   /\ ss[s].activation_status \in {"activated", "completed"}})

has_trial_available(ss) == get_activated_seasons_count(ss) = 0

\* set_current_season that unsets no season before it sets the target
current_season_ids_none(all_seasons) == <<>>

\* the seasons set_current_season unsets: the current ones of get_by_alliance,
\* which orders by start_date, latest first
RECURSIVE CurrentFrom(_, _)
CurrentFrom(all_seasons, s) ==
    IF s = 0 THEN <<>>
    ELSE (IF all_seasons[s].exists /\ all_seasons[s].is_current
          THEN <<s>> ELSE <<>>)
         \o CurrentFrom(all_seasons, s - 1)
current_season_ids(all_seasons) == CurrentFrom(all_seasons, MaxSeasons)

\* ---------------------------------------- season calls, one await at a time
\* The handlers of concurrent requests: every awaited repository call that
\* reads or writes a season or the alliance is one step, and what a call has
\* read stays in its local variables (sq[p]) until it writes.  Awaits that
\* read neither (get_by_collaborator, the role checks) are part of the step
\* before them.  result is the response sent last: what was called and what
\* it raised (None if it returned).  get_season raises ValueError for a
\* season that is not stored; the update of a row that was deleted since the
\* call read it writes nothing and raises.
QuotaFrame ==
    UNCHANGED <<start_date, uploads, snapshots, periods, metrics, last_op, rb,
                event, event_metrics, eb, uc, event_call_vars, call, store, req,
                handled>>

\* the worker of p is between two requests
SeasonCallFree(p) == sq[p].pc = "idle"

SeasonCall(fn, season_id) ==
    [IdleSeasonCall EXCEPT !.fn = fn, !.season_id = Some(season_id)]
SeasonResponse(c, error) ==
    Some([fn |-> c.fn, season_id |-> c.season_id, quantity |-> c.quantity,
          error |-> error])
\* the row the call of p is about to update is not stored any more
SeasonRowGone(p) == ~seasons[sq[p].season_id[1]].exists
\* the response of a call that ends with an update of its season
UpdateResponse(p) ==
    SeasonResponse(sq[p], IF SeasonRowGone(p) THEN Some("RepositoryError") ELSE None)

\* activate_season, get_season: the status and the duration of the row read
QuotaCallActivate(p, season_id) ==
    LET season == seasons[season_id]
        c == SeasonCall("activate_season", season_id)
        refused == \/ ~season.exists
                   \/ season.activation_status # "draft"
                   \/ ~validate_season_duration(season.start_date, season.end_date)
    IN /\ SeasonCallFree(p)
       /\ sq' = [sq EXCEPT ![p] =
                    IF refused THEN IdleSeasonCall
                    ELSE [c EXCEPT !.pc = "validate_overlap",
                                   !.end_date = season.end_date]]
       /\ result' = IF refused THEN SeasonResponse(c, Some("ValueError")) ELSE result
       /\ UNCHANGED <<seasons, alliance>>
       /\ QuotaFrame

\* _validate_no_date_overlap of activate_season and update_season,
\* get_by_alliance: the dates the call holds against the seasons stored now
SeasonValidateOverlap(p) ==
    LET season_id == sq[p].season_id[1]
        refused == ~validate_no_date_overlap(seasons, seasons[season_id].start_date,
                                             sq[p].end_date, season_id)
    IN /\ sq[p].pc = "validate_overlap"
       /\ sq' = [sq EXCEPT ![p] =
                    IF refused THEN IdleSeasonCall
                    ELSE [sq[p] EXCEPT !.pc = IF sq[p].fn = "activate_season"
                                              THEN "require_alliance"
                                              ELSE "update_season_update"]]
       /\ result' = IF refused THEN SeasonResponse(sq[p], Some("ValueError")) ELSE result
       /\ UNCHANGED <<seasons, alliance>>
       /\ QuotaFrame

\* require_season_activation, get_alliance_by_id
QuotaRequireAlliance(p) ==
    /\ sq[p].pc = "require_alliance"
    /\ sq' = [sq EXCEPT ![p].alliance = alliance,
                        ![p].pc = IF calculate_available_seasons(alliance) > 0
                                  THEN "consume_alliance" ELSE "require_count"]
    /\ UNCHANGED <<seasons, alliance, result>>
    /\ QuotaFrame

\* require_season_activation, _has_trial_available
QuotaRequireCount(p) ==
    /\ sq[p].pc = "require_count"
    /\ sq' = [sq EXCEPT ![p] =
                 IF has_trial_available(seasons)
                 THEN [sq[p] EXCEPT !.pc = "consume_alliance"]
                 ELSE IdleSeasonCall]
    /\ result' = IF has_trial_available(seasons) THEN result
                 ELSE SeasonResponse(sq[p], Some("SeasonQuotaExhaustedError"))
    /\ UNCHANGED <<seasons, alliance>>
    /\ QuotaFrame

\* consume_season, get_alliance_by_id
QuotaConsumeAlliance(p) ==
    /\ sq[p].pc = "consume_alliance"
    /\ sq' = [sq EXCEPT ![p].alliance = alliance, ![p].pc = "consume_count"]
    /\ UNCHANGED <<seasons, alliance, result>>
    /\ QuotaFrame

\* consume_season, _has_trial_available and the choice of paid or trial
QuotaConsumeCount(p) ==
    LET paid == calculate_available_seasons(sq[p].alliance) > 0
        has_trial == has_trial_available(seasons)
    IN /\ sq[p].pc = "consume_count"
       /\ sq' = [sq EXCEPT ![p] =
                    IF paid THEN [sq[p] EXCEPT !.pc = "consume_update"]
                    ELSE IF has_trial
                    THEN [sq[p] EXCEPT !.pc = "update_season", !.used_trial = TRUE]
                    ELSE IdleSeasonCall]
       /\ result' = IF paid \/ has_trial THEN result
                    ELSE SeasonResponse(sq[p], Some("ValueError"))
       /\ UNCHANGED <<seasons, alliance>>
       /\ QuotaFrame

\* consume_season, alliance update: used_seasons of the row read, plus one
QuotaConsumeUpdate(p) ==
    /\ sq[p].pc = "consume_update"
    /\ alliance' = [alliance EXCEPT !.used_seasons = sq[p].alliance.used_seasons + 1]
    /\ sq' = [sq EXCEPT ![p].pc = "update_season"]
    /\ UNCHANGED <<seasons, result>>
    /\ QuotaFrame

\* activate_season, season update
QuotaUpdateSeason(p) ==
    /\ sq[p].pc = "update_season"
    /\ seasons' = IF SeasonRowGone(p) THEN seasons
                  ELSE [seasons EXCEPT
                            ![sq[p].season_id[1]].activation_status = "activated",
                            ![sq[p].season_id[1]].is_trial = sq[p].used_trial]
    /\ sq' = [sq EXCEPT ![p] = IdleSeasonCall]
    /\ result' = UpdateResponse(p)
    /\ UNCHANGED alliance
    /\ QuotaFrame

\* complete_season, get_season: the status of the row read
CompleteSeasonCall(p, season_id) ==
    LET c == SeasonCall("complete_season", season_id)
        refused == \/ ~seasons[season_id].exists
                   \/ seasons[season_id].activation_status # "activated"
    IN /\ SeasonCallFree(p)
       /\ sq' = [sq EXCEPT ![p] =
                    IF refused THEN IdleSeasonCall
                    ELSE [c EXCEPT !.pc = "complete_update"]]
       /\ result' = IF refused THEN SeasonResponse(c, Some("ValueError")) ELSE result
       /\ UNCHANGED <<seasons, alliance>>
       /\ QuotaFrame

\* complete_season, season update
CompleteSeasonUpdate(p) ==
    /\ sq[p].pc = "complete_update"
    /\ seasons' = IF SeasonRowGone(p) THEN seasons
                  ELSE [seasons EXCEPT
                            ![sq[p].season_id[1]].activation_status = "completed"]
    /\ sq' = [sq EXCEPT ![p] = IdleSeasonCall]
    /\ result' = UpdateResponse(p)
    /\ UNCHANGED alliance
    /\ QuotaFrame

\* reopen_season, get_season: the status of the row read
ReopenSeasonCall(p, season_id) ==
    LET c == SeasonCall("reopen_season", season_id)
        refused == \/ ~seasons[season_id].exists
                   \/ seasons[season_id].activation_status # "completed"
    IN /\ SeasonCallFree(p)
       /\ sq' = [sq EXCEPT ![p] =
                    IF refused THEN IdleSeasonCall
                    ELSE [c EXCEPT !.pc = "reopen_update"]]
       /\ result' = IF refused THEN SeasonResponse(c, Some("ValueError")) ELSE result
       /\ UNCHANGED <<seasons, alliance>>
       /\ QuotaFrame

\* reopen_season, season update
ReopenSeasonUpdate(p) ==
    /\ sq[p].pc = "reopen_update"
    /\ seasons' = IF SeasonRowGone(p) THEN seasons
                  ELSE [seasons EXCEPT
                            ![sq[p].season_id[1]].activation_status = "activated"]
    /\ sq' = [sq EXCEPT ![p] = IdleSeasonCall]
    /\ result' = UpdateResponse(p)
    /\ UNCHANGED alliance
    /\ QuotaFrame

\* set_current_season, get_season: a draft season is refused
SetCurrentSeasonCall(p, season_id) ==
    LET c == SeasonCall("set_current_season", season_id)
        refused == \/ ~seasons[season_id].exists
                   \/ seasons[season_id].activation_status = "draft"
    IN /\ SeasonCallFree(p)
       /\ sq' = [sq EXCEPT ![p] =
                    IF refused THEN IdleSeasonCall
                    ELSE [c EXCEPT !.pc = "set_current_read"]]
       /\ result' = IF refused THEN SeasonResponse(c, Some("ValueError")) ELSE result
       /\ UNCHANGED <<seasons, alliance>>
       /\ QuotaFrame

\* set_current_season, get_by_alliance: the seasons that are current now
SetCurrentSeasonGetByAlliance(p) ==
    /\ sq[p].pc = "set_current_read"
    /\ sq' = [sq EXCEPT ![p].to_unset = current_season_ids(seasons),
                        ![p].pc = "set_current_update"]
    /\ UNCHANGED <<seasons, alliance, result>>
    /\ QuotaFrame

\* set_current_season, one update of the loop: the next season read as current
SetCurrentSeasonUnset(p) ==
    /\ sq[p].pc = "set_current_update"
    /\ sq[p].to_unset # <<>>
    /\ LET gone == ~seasons[Head(sq[p].to_unset)].exists
       IN /\ seasons' = IF gone THEN seasons
                        ELSE [seasons EXCEPT ![Head(sq[p].to_unset)].is_current = FALSE]
          /\ sq' = [sq EXCEPT ![p] = IF gone THEN IdleSeasonCall
                                     ELSE [sq[p] EXCEPT !.to_unset = Tail(sq[p].to_unset)]]
          /\ result' = IF gone THEN SeasonResponse(sq[p], Some("RepositoryError"))
                       ELSE result
    /\ UNCHANGED alliance
    /\ QuotaFrame

\* set_current_season, the last update: the target becomes current
SetCurrentSeasonSet(p) ==
    /\ sq[p].pc = "set_current_update"
    /\ sq[p].to_unset = <<>>
    /\ seasons' = IF SeasonRowGone(p) THEN seasons
                  ELSE [seasons EXCEPT ![sq[p].season_id[1]].is_current = TRUE]
    /\ sq' = [sq EXCEPT ![p] = IdleSeasonCall]
    /\ result' = UpdateResponse(p)
    /\ UNCHANGED alliance
    /\ QuotaFrame

\* the end dates a request asks for: none, the season's own, one too late
SeasonEndDates(season_id) ==
    {None, Some(seasons[season_id].start_date + SeasonSlotDays),
     Some(seasons[season_id].start_date + 2 * SeasonSlotDays)}

\* update_season with end_date in the request, get_season: the restrictions
\* of the row's status.  An activated season is validated only when the new
\* end_date is not None; a draft season always
UpdateSeasonCall(p, season_id, end_date) ==
    LET season == seasons[season_id]
        c == [SeasonCall("update_season", season_id) EXCEPT !.end_date = end_date]
        unvalidated == season.activation_status = "activated" /\ end_date = None
        refused == \/ ~season.exists
                   \/ season.activation_status = "completed"
                   \/ /\ ~unvalidated
                      /\ ~validate_season_duration(season.start_date, end_date)
    IN /\ SeasonCallFree(p)
       /\ sq' = [sq EXCEPT ![p] =
                    IF refused THEN IdleSeasonCall
                    ELSE IF unvalidated THEN [c EXCEPT !.pc = "update_season_update"]
                    ELSE [c EXCEPT !.pc = "validate_overlap"]]
       /\ result' = IF refused THEN SeasonResponse(c, Some("ValueError")) ELSE result
       /\ UNCHANGED <<seasons, alliance>>
       /\ QuotaFrame

\* update_season, season update
UpdateSeasonUpdate(p) ==
    /\ sq[p].pc = "update_season_update"
    /\ seasons' = IF SeasonRowGone(p) THEN seasons
                  ELSE [seasons EXCEPT ![sq[p].season_id[1]].end_date = sq[p].end_date]
    /\ sq' = [sq EXCEPT ![p] = IdleSeasonCall]
    /\ result' = UpdateResponse(p)
    /\ UNCHANGED alliance
    /\ QuotaFrame

\* delete_season, get_season: only a draft season can be deleted
DeleteSeasonCall(p, season_id) ==
    LET c == SeasonCall("delete_season", season_id)
        refused == \/ ~seasons[season_id].exists
                   \/ seasons[season_id].activation_status # "draft"
    IN /\ SeasonCallFree(p)
       /\ sq' = [sq EXCEPT ![p] =
                    IF refused THEN IdleSeasonCall
                    ELSE [c EXCEPT !.pc = "delete_season_delete"]]
       /\ result' = IF refused THEN SeasonResponse(c, Some("ValueError")) ELSE result
       /\ UNCHANGED <<seasons, alliance>>
       /\ QuotaFrame

\* delete_season, season delete: the row goes, whatever it holds now; a row
\* that is gone already is no error
DeleteSeasonDelete(p) ==
    /\ sq[p].pc = "delete_season_delete"
    /\ seasons' = [seasons EXCEPT ![sq[p].season_id[1]] =
                                      DeletedSeason(sq[p].season_id[1])]
    /\ sq' = [sq EXCEPT ![p] = IdleSeasonCall]
    /\ result' = SeasonResponse(sq[p], None)
    /\ UNCHANGED alliance
    /\ QuotaFrame

\* create_season for the range of slot season_id: _validate_season_duration
CreateSeasonCall(p, season_id, end_date) ==
    LET c == [SeasonCall("create_season", season_id) EXCEPT !.end_date = end_date]
        refused == ~validate_season_duration(NewSeason(season_id).start_date, end_date)
    IN /\ SeasonCallFree(p)
       /\ sq' = [sq EXCEPT ![p] =
                    IF refused THEN IdleSeasonCall
                    ELSE [c EXCEPT !.pc = "create_validate_overlap"]]
       /\ result' = IF refused THEN SeasonResponse(c, Some("ValueError")) ELSE result
       /\ UNCHANGED <<seasons, alliance>>
       /\ QuotaFrame

\* create_season, _validate_no_date_overlap: no season is excluded
CreateSeasonValidateOverlap(p) ==
    LET season_id == sq[p].season_id[1]
        refused == ~validate_no_date_overlap(seasons, NewSeason(season_id).start_date,
                                             sq[p].end_date, 0)
    IN /\ sq[p].pc = "create_validate_overlap"
       /\ sq' = [sq EXCEPT ![p] =
                    IF refused THEN IdleSeasonCall
                    ELSE [sq[p] EXCEPT !.pc = "create_season_create"]]
       /\ result' = IF refused THEN SeasonResponse(sq[p], Some("ValueError")) ELSE result
       /\ UNCHANGED <<seasons, alliance>>
       /\ QuotaFrame

\* create_season, season create: a draft that is not current
CreateSeasonCreate(p) ==
    /\ sq[p].pc = "create_season_create"
    /\ seasons' = [seasons EXCEPT ![sq[p].season_id[1]] =
                       [NewSeason(sq[p].season_id[1]) EXCEPT !.end_date = sq[p].end_date]]
    /\ sq' = [sq EXCEPT ![p] = IdleSeasonCall]
    /\ result' = SeasonResponse(sq[p], None)
    /\ UNCHANGED alliance
    /\ QuotaFrame

\* handle_checkout_completed of a checkout.completed webhook: a quantity that
\* is not positive is refused, otherwise add_purchased_seasons reads the
\* alliance (get_alliance_by_id)
QuotaCallAddPurchased(p, quantity) ==
    LET c == [IdleSeasonCall EXCEPT !.fn = "add_purchased_seasons",
                                    !.quantity = quantity]
    IN /\ SeasonCallFree(p)
       /\ alliance.purchased_seasons + quantity <= MaxPurchased
       /\ sq' = [sq EXCEPT ![p] =
                    IF quantity <= 0 THEN IdleSeasonCall
                    ELSE [c EXCEPT !.pc = "add_update", !.alliance = alliance]]
       /\ result' = IF quantity <= 0 THEN SeasonResponse(c, Some("ValueError"))
                    ELSE result
       /\ UNCHANGED <<seasons, alliance>>
       /\ QuotaFrame

\* add_purchased_seasons, alliance update: purchased_seasons of the row read,
\* plus the quantity
QuotaAddUpdate(p) ==
    /\ sq[p].pc = "add_update"
    /\ alliance' = [alliance EXCEPT
                        !.purchased_seasons = sq[p].alliance.purchased_seasons
                                                + sq[p].quantity]
    /\ sq' = [sq EXCEPT ![p] = IdleSeasonCall]
    /\ result' = SeasonResponse(sq[p], None)
    /\ UNCHANGED seasons
    /\ QuotaFrame

\* activate_season and checkout webhooks of concurrent requests
NextQuota ==
    \E p \in Procs :
        \/ \E season_id \in SeasonIds : QuotaCallActivate(p, season_id)
        \/ SeasonValidateOverlap(p)
        \/ QuotaRequireAlliance(p)
        \/ QuotaRequireCount(p)
        \/ QuotaConsumeAlliance(p)
        \/ QuotaConsumeCount(p)
        \/ QuotaConsumeUpdate(p)
        \/ QuotaUpdateSeason(p)
        \/ \E quantity \in 0..MaxPurchased : QuotaCallAddPurchased(p, quantity)
        \/ QuotaAddUpdate(p)

SpecQuota == Init /\ [][NextQuota]_vars

\* the status handlers of concurrent requests
NextSeasonOverlap ==
    \E p \in Procs :
        \/ \E season_id \in SeasonIds : QuotaCallActivate(p, season_id)
        \/ SeasonValidateOverlap(p)
        \/ QuotaRequireAlliance(p)
        \/ QuotaRequireCount(p)
        \/ QuotaConsumeAlliance(p)
        \/ QuotaConsumeCount(p)
        \/ QuotaConsumeUpdate(p)
        \/ QuotaUpdateSeason(p)
        \/ \E season_id \in SeasonIds : CompleteSeasonCall(p, season_id)
        \/ CompleteSeasonUpdate(p)
        \/ \E season_id \in SeasonIds : ReopenSeasonCall(p, season_id)
        \/ ReopenSeasonUpdate(p)
        \/ \E season_id \in SeasonIds : SetCurrentSeasonCall(p, season_id)
        \/ SetCurrentSeasonGetByAlliance(p)
        \/ SetCurrentSeasonUnset(p)
        \/ SetCurrentSeasonSet(p)
        \/ \E season_id \in SeasonIds : DeleteSeasonCall(p, season_id)
        \/ DeleteSeasonDelete(p)
        \/ \E quantity \in 0..MaxPurchased : QuotaCallAddPurchased(p, quantity)
        \/ QuotaAddUpdate(p)

SpecSeasonOverlap == Init /\ [][NextSeasonOverlap]_vars

\* the same handlers with every call run to completion: a request is taken
\* while no other request is under way
NextSeason ==
    \E p \in Procs :
        /\ \A q \in Procs \ {p} : SeasonCallFree(q)
        /\ \/ \E season_id \in SeasonIds : QuotaCallActivate(p, season_id)
           \/ SeasonValidateOverlap(p)
           \/ QuotaRequireAlliance(p)
           \/ QuotaRequireCount(p)
           \/ QuotaConsumeAlliance(p)
           \/ QuotaConsumeCount(p)
           \/ QuotaConsumeUpdate(p)
           \/ QuotaUpdateSeason(p)
           \/ \E season_id \in SeasonIds : CompleteSeasonCall(p, season_id)
           \/ CompleteSeasonUpdate(p)
           \/ \E season_id \in SeasonIds : ReopenSeasonCall(p, season_id)
           \/ ReopenSeasonUpdate(p)
           \/ \E season_id \in SeasonIds : SetCurrentSeasonCall(p, season_id)
           \/ SetCurrentSeasonGetByAlliance(p)
           \/ SetCurrentSeasonUnset(p)
           \/ SetCurrentSeasonSet(p)
           \/ \E season_id \in SeasonIds :
                 \E end_date \in SeasonEndDates(season_id) :
                    UpdateSeasonCall(p, season_id, end_date)
           \/ UpdateSeasonUpdate(p)
           \/ \E season_id \in SeasonIds : DeleteSeasonCall(p, season_id)
           \/ DeleteSeasonDelete(p)
           \/ \E season_id \in SeasonIds :
                 \E end_date \in SeasonEndDates(season_id) :
                    CreateSeasonCall(p, season_id, end_date)
           \/ CreateSeasonValidateOverlap(p)
           \/ CreateSeasonCreate(p)
           \/ \E quantity \in 0..MaxPurchased : QuotaCallAddPurchased(p, quantity)
           \/ QuotaAddUpdate(p)

SpecSeason == Init /\ [][NextSeason]_vars

\* ------------------------------------------------------ idempotency keys
\* InMemoryIdempotencyStorage for the keys of one user on a covered path.  A
\* record is [key, status, status_code, expired]; expired says that now is
\* past its expires_at.  Every storage method runs under the lock, so each is
\* one step.
RecordIndex(st, key) ==
    IF \E i \in 1..Len(st) : st[i].key = key
    THEN CHOOSE i \in 1..Len(st) : st[i].key = key
    ELSE 0

ProcessingRecord(key) ==
    [key |-> key, status |-> "processing", status_code |-> None, expired |-> FALSE]

RemoveRecord(st, key) == SelectSeq(st, LAMBDA r : r.key # key)

\* storage.get: an expired record is deleted and None is returned
storage_get(st, key) ==
    LET i == RecordIndex(st, key)
    IN IF i = 0 THEN [store |-> st, record |-> None]
       ELSE IF st[i].expired THEN [store |-> RemoveRecord(st, key), record |-> None]
       ELSE [store |-> st, record |-> Some(st[i])]

\* while len(self._store) >= self._max_size: popitem(last=False)
RECURSIVE EvictOldest(_)
EvictOldest(st) ==
    IF Len(st) >= MaxStoreSize /\ st # <<>> THEN EvictOldest(Tail(st)) ELSE st

\* storage.create: False if a live record exists; otherwise the oldest
\* records are evicted at capacity and a PROCESSING record is stored
storage_create(st, key) ==
    LET i == RecordIndex(st, key)
    IN IF i # 0 /\ ~st[i].expired
       THEN [store |-> st, acquired |-> FALSE]
       ELSE LET kept == EvictOldest(st)
                j == RecordIndex(kept, key)
            IN [store |-> IF j = 0 THEN Append(kept, ProcessingRecord(key))
                          ELSE [kept EXCEPT ![j] = ProcessingRecord(key)],
                acquired |-> TRUE]

\* storage.complete: the record, if there is one, becomes COMPLETED
storage_complete(st, key, status_code) ==
    LET i == RecordIndex(st, key)
    IN IF i = 0 THEN st
       ELSE [st EXCEPT ![i].status = "completed", ![i].status_code = Some(status_code)]

\* storage.fail: the record is deleted
storage_fail(st, key) == RemoveRecord(st, key)

IdemFrame ==
    UNCHANGED <<start_date, uploads, snapshots, periods, metrics, last_op, rb,
                event, event_metrics, eb, uc, event_call_vars, call, result,
                seasons, alliance, sq>>

\* dispatch up to the existing-record check: 409 for a PROCESSING record, the
\* cached response for a COMPLETED one, otherwise on to storage.create
DispatchGet(p, key) ==
    /\ req[p].pc = "idle"
    /\ LET got == storage_get(store, key)
       IN /\ store' = got.store
          /\ req' = [req EXCEPT ![p] =
                IF got.record = None
                THEN [pc |-> "create", key |-> Some(key), status_code |-> None]
                ELSE IF got.record[1].status = "processing"
                THEN [pc |-> "rejected", key |-> Some(key), status_code |-> Some(409)]
                ELSE [pc |-> "cached", key |-> Some(key),
                      status_code |-> got.record[1].status_code]]
    /\ UNCHANGED handled
    /\ IdemFrame

\* dispatch, storage.create: 409 if the key was not acquired
DispatchCreate(p) ==
    /\ req[p].pc = "create"
    /\ LET made == storage_create(store, req[p].key[1])
       IN /\ store' = made.store
          /\ req' = [req EXCEPT ![p].pc = IF made.acquired THEN "handler" ELSE "rejected",
                                ![p].status_code = IF made.acquired THEN None ELSE Some(409)]
    /\ UNCHANGED handled
    /\ IdemFrame

\* the status codes a response of the downstream handler carries: the
\* registered 2xx codes (the covered endpoints answer 200, 201 and 204), the
\* two codes at the upper end of the 2xx range, and the error codes of the
\* endpoints
ResponseCodes ==
    (200..208) \cup {226, 299, 300, 400, 401, 403, 404, 422, 500, 503}
\* 200 <= response.status_code < 300
SuccessCodes == {status_code \in ResponseCodes : 200 <= status_code /\ status_code < 300}

\* call_next: the downstream handler completes with a 2xx response
HandlerSucceeds(p) ==
    /\ req[p].pc = "handler"
    /\ handled[req[p].key[1]] < MaxHandled
    /\ handled' = [handled EXCEPT ![req[p].key[1]] = @ + 1]
    /\ \E status_code \in SuccessCodes :
          req' = [req EXCEPT ![p].pc = "complete", ![p].status_code = Some(status_code)]
    /\ UNCHANGED store
    /\ IdemFrame

\* call_next: a non-2xx response, or an exception (no status code)
HandlerFails(p) ==
    /\ req[p].pc = "handler"
    /\ \E outcome \in {Some(status_code) : status_code \in ResponseCodes \ SuccessCodes}
                          \cup {None} :
          req' = [req EXCEPT ![p].pc = "fail", ![p].status_code = outcome]
    /\ UNCHANGED <<store, handled>>
    /\ IdemFrame

\* dispatch, storage.complete after a 2xx response
DispatchComplete(p) ==
    /\ req[p].pc = "complete"
    /\ store' = storage_complete(store, req[p].key[1], req[p].status_code[1])
    /\ req' = [req EXCEPT ![p].pc = "responded"]
    /\ UNCHANGED handled
    /\ IdemFrame

\* dispatch, storage.fail after a non-2xx response or an exception
DispatchFail(p) ==
    /\ req[p].pc = "fail"
    /\ store' = storage_fail(store, req[p].key[1])
    /\ req' = [req EXCEPT ![p].pc = "responded"]
    /\ UNCHANGED handled
    /\ IdemFrame

\* the response leaves the middleware
DispatchReturn(p) ==
    /\ req[p].pc \in {"rejected", "cached", "responded"}
    /\ req' = [req EXCEPT ![p] = IdleRequest]
    /\ UNCHANGED <<store, handled>>
    /\ IdemFrame

\* time passes the expires_at of a record (ttl_seconds after its creation)
TtlElapses(key) ==
    /\ RecordIndex(store, key) # 0
    /\ ~store[RecordIndex(store, key)].expired
    /\ store' = [store EXCEPT ![RecordIndex(store, key)].expired = TRUE]
    /\ UNCHANGED <<req, handled>>
    /\ IdemFrame

\* storage.cleanup_expired: every record past its expires_at is deleted
cleanup_expired(st) == SelectSeq(st, LAMBDA r : ~r.expired)

\* a call of cleanup_expired, under the lock
CleanupExpired ==
    /\ store' = cleanup_expired(store)
    /\ UNCHANGED <<req, handled>>
    /\ IdemFrame

NextIdem ==
    \/ CleanupExpired
    \/ \E p \in Procs :
          \/ \E key \in IdemKeys : DispatchGet(p, key)
          \/ DispatchCreate(p)
          \/ HandlerSucceeds(p)
          \/ HandlerFails(p)
          \/ DispatchComplete(p)
          \/ DispatchFail(p)
          \/ DispatchReturn(p)
    \/ \E key \in IdemKeys : TtlElapses(key)

SpecIdem == Init /\ [][NextIdem]_vars

\* ================================================================= claims
\* no request is inside calculate_periods_for_season
NoRebuildUnderWay == \A p \in Procs : rb[p].pc \in {"idle", "done"}
\* no request is inside process_event_snapshots
NoProcessingUnderWay == \A p \in Procs : eb[p].pc \in {"idle", "done"}
\* The requests that end with a run of calculate_periods_for_season
RebuildOps == {"upload", "upload_insert", "delete", "recalculate", "recalculate_all"}
\* the last request of the client was one of them and has been answered
Rebuilt == last_op \in RebuildOps /\ \A p \in Procs : rb[p].pc = "idle"

Without(rec, fields) == [f \in (DOMAIN rec) \ fields |-> rec[f]]

MetricsOfPeriod(db, period_id) ==
    SelectSeq(db.metrics, LAMBDA r : r.period_id = period_id)

\* What a caller sees of the season: each period (without its row id) with the
\* PeriodMetric rows of that period
SeasonView(db) ==
    [k \in 1..Len(db.periods) |->
        [period |-> Without(db.periods[k], {"id"}),
         metrics |->
            LET rows == MetricsOfPeriod(db, db.periods[k].id)
            IN [j \in 1..Len(rows) |-> Without(rows[j], {"period_id"})]]]

StoredView == SeasonView(Db)

UploadById(upload_id) ==
    uploads[CHOOSE k \in 1..Len(uploads) : uploads[k].id = upload_id]

\* The stored snapshot row a snapshot id names
SnapshotById(snapshot_id) == SnapOf(snapshots[snapshot_id[1]], snapshot_id[2])
SnapshotStored(snapshot_id) ==
    snapshot_id[2] \in MemberSet(snapshots[snapshot_id[1]])

MetricRows == {metrics[k] : k \in 1..Len(metrics)}
PeriodRows == {periods[k] : k \in 1..Len(periods)}

\* What one call of calculate_periods_for_season leaves for the stored uploads
SingleCallView ==
    SeasonView(calculate_periods_for_season(EmptyDb, snapshots, start_date, uploads))

\* C1: a run of calculate_periods_for_season that follows a completed run on
\* the same uploads and snapshots leaves the same number of periods and, for
\* each period, the same boundaries, period_number and PeriodMetric values:
\* every completed run on uploads leaves what a single run leaves, and a run
\* on a season without uploads changes no row.
C1_RebuildIdempotent ==
    /\ []((rb[1].pc = "done" /\ uploads # <<>>) => StoredView = SingleCallView)
    /\ [][(uploads = <<>> /\ uploads' = <<>> /\ rb[1].pc # "delete_by_alliance")
            => (periods' = periods /\ metrics' = metrics)]_vars

\* a recalculate request that followed a completed rebuild of the same
\* uploads is about to be answered
C1_Witness ==
    /\ last_op \in RebuildOps
    /\ rb[1].pc = "done"
    /\ rb[1].op = "recalculate"
    /\ Len(periods) >= 2
    /\ \A k \in 1..Len(periods) : MetricsOfPeriod(Db, periods[k].id) # <<>>

\* C2: no stored PeriodMetric has a negative cumulative diff, and once the
\* rebuild is over the row of a member that is in the start and in the end
\* upload of its period has each cumulative diff equal to max(0, end - start).
C2_ClampedDiffs ==
    /\ \A row \in MetricRows :
          /\ row.contribution_diff >= 0
          /\ row.merit_diff >= 0
          /\ row.assist_diff >= 0
          /\ row.donation_diff >= 0
    /\ \A p \in PeriodRows :
          (/\ NoRebuildUnderWay
           /\ p.start_upload_id # None
           /\ p.start_upload_id[1] \in UploadIdsOf(uploads)
           /\ p.end_upload_id \in UploadIdsOf(uploads))
          => \A m \in MemberSet(snapshots[p.start_upload_id[1]])
                        \cap MemberSet(snapshots[p.end_upload_id]) :
                LET s == SnapOf(snapshots[p.start_upload_id[1]], m)
                    e == SnapOf(snapshots[p.end_upload_id], m)
                    rows == {row \in MetricRows :
                                row.period_id = p.id /\ row.member_id = m}
                IN /\ rows # {}
                   /\ \A row \in rows :
                         /\ row.contribution_diff
                              = Max(0, e.total_contribution - s.total_contribution)
                         /\ row.merit_diff = Max(0, e.total_merit - s.total_merit)
                         /\ row.assist_diff = Max(0, e.total_assist - s.total_assist)
                         /\ row.donation_diff
                              = Max(0, e.total_donation - s.total_donation)

\* a stored row whose end counters are smaller than its start counters
C2_Witness ==
    \E row \in MetricRows :
        /\ row.start_snapshot_id # None
        /\ SnapshotStored(row.start_snapshot_id[1])
        /\ SnapshotStored(row.end_snapshot_id[1])
        /\ LET s == SnapshotById(row.start_snapshot_id[1])
               e == SnapshotById(row.end_snapshot_id[1])
           IN /\ e.total_contribution < s.total_contribution
              /\ e.total_donation < s.total_donation
              /\ row.contribution_diff = 0
              /\ row.donation_diff = 0

\* The period boundaries that the set of upload dates and the season start fix
UploadDates == {DateOf(uploads[k].snapshot_date) : k \in 1..Len(uploads)}
ExpectedBoundaries ==
    LET first == CHOOSE d \in UploadDates : \A e \in UploadDates : d <= e
    IN (IF first > start_date THEN {<<start_date, first>>} ELSE {})
       \cup {<<CHOOSE b \in UploadDates :
                    b < d /\ \A c \in UploadDates : c < d => c <= b,
                d>> : d \in {d \in UploadDates : d > first}}

\* C3: after a completed rebuild the periods are fixed by the set of uploads
\* and their snapshot dates: their boundaries are those of the consecutive
\* upload dates, and no upload lies between the start upload and the end
\* upload of a period (an upload added between two uploads splits their period).
C3_PeriodsFollowSnapshotOrder ==
    (Rebuilt /\ uploads # <<>>)
    => /\ {<<p.start_date, p.end_date>> : p \in PeriodRows} = ExpectedBoundaries
       /\ \A p \in PeriodRows :
             /\ p.end_upload_id \in UploadIdsOf(uploads)
             /\ p.end_date = DateOf(UploadById(p.end_upload_id).snapshot_date)
             /\ p.start_upload_id # None
                  => /\ p.start_upload_id[1] \in UploadIdsOf(uploads)
                     /\ LET s == UploadById(p.start_upload_id[1])
                            e == UploadById(p.end_upload_id)
                        IN /\ s.snapshot_date < e.snapshot_date
                           /\ p.start_date = DateOf(s.snapshot_date)
                           /\ \A k \in 1..Len(uploads) :
                                 ~ (/\ s.snapshot_date < uploads[k].snapshot_date
                                    /\ uploads[k].snapshot_date < e.snapshot_date)

\* an upload dated between two stored uploads was added, and both halves of
\* the period it split are stored
C3_Witness ==
    /\ Rebuilt
    /\ last_op = "upload_insert"
    /\ \E p \in PeriodRows, q \in PeriodRows :
          /\ p.start_upload_id # None
          /\ q.start_upload_id = Some(p.end_upload_id)
          /\ q.days >= 1 /\ p.days >= 1

\* C4: a rebuild of a season without uploads leaves no period and no metric.
\* (calculate_periods_for_season returns before delete_by_season when the
\* upload list is empty.)
C4_EmptyUploadSetClearsPeriods ==
    (Rebuilt /\ uploads = <<>>) => (periods = <<>> /\ metrics = <<>>)

\* Position of an upload in the ascending order the rebuild works through
SortedUploads == SortedBySnapshotDate(uploads)
ZeroDay(i) ==
    IF i = 1
    THEN DateOf(SortedUploads[1].snapshot_date) <= start_date
    ELSE DateOf(SortedUploads[i].snapshot_date)
            <= DateOf(SortedUploads[i - 1].snapshot_date)
PeriodsEndingAt(upload_id) == {p \in PeriodRows : p.end_upload_id = upload_id}

\* C5: every stored period has days >= 1 and end_date > start_date; after a
\* completed rebuild an upload that is not dated after its predecessor (the
\* season start for the first) has no period and no metric, and every other
\* upload has its period.
C5_NoZeroDayPeriod ==
    /\ \A p \in PeriodRows :
          p.days >= 1 /\ p.end_date > p.start_date /\ p.days = p.end_date - p.start_date
    /\ (Rebuilt /\ uploads # <<>>)
       => \A i \in 1..Len(SortedUploads) :
             IF ZeroDay(i)
             THEN /\ PeriodsEndingAt(SortedUploads[i].id) = {}
                  /\ \A row \in MetricRows :
                        row.end_snapshot_id[1][1] # SortedUploads[i].id
             ELSE /\ PeriodsEndingAt(SortedUploads[i].id) # {}
                  /\ \A m \in MemberSet(snapshots[SortedUploads[i].id]) :
                        \E row \in MetricRows :
                            row.end_snapshot_id = Some(<<SortedUploads[i].id, m>>)

\* an upload of the same day as its predecessor was skipped and a later upload
\* has its period
C5_Witness ==
    /\ Rebuilt
    /\ \E i \in 1..Len(SortedUploads), j \in 1..Len(SortedUploads) :
          /\ 1 < i /\ i < j
          /\ ZeroDay(i)
          /\ ~ ZeroDay(j)
          /\ PeriodsEndingAt(SortedUploads[j].id) # {}

\* C6: after a completed rebuild the period_number values of the k stored
\* periods are exactly 1..k.  (The loop numbers a period by the position of
\* its upload, skipped uploads included.)
C6_PeriodNumbersSequential ==
    (Rebuilt /\ uploads # <<>>)
    => {p.period_number : p \in PeriodRows} = 1..Len(periods)

\* C7: once two concurrent calls for the same season have both finished, the
\* season holds exactly the periods and metrics of a single call.  (Nothing
\* keeps the two calls from interleaving their delete and create steps.)
C7_ConcurrentRebuildsAsOne ==
    (\A p \in Procs : rb[p].pc = "done") => StoredView = SingleCallView

\* C8: when a call fails after delete_by_season, the season holds the periods
\* this call created before the failure and nothing else: the periods stored
\* before the call are not restored.
C8_FailedRebuildNotRestored ==
    \A p \in Procs :
        (/\ rb[p].pc = "failed"
         /\ rb[p].deleted
         /\ \A q \in Procs \ {p} : rb[q].pc = "idle")
        => /\ periods = rb[p].created \o rb[p].period
           /\ \A row \in MetricRows :
                 \E k \in 1..Len(rb[p].created) : rb[p].created[k].id = row.period_id

\* the call failed right after the delete: periods were stored, none is left
C8_Witness ==
    /\ rb[1].pc = "failed"
    /\ rb[1].deleted
    /\ rb[1].had > 0
    /\ periods = <<>>
    /\ metrics = <<>>

EventSnapshots(upload_id) ==
    IF upload_id = None THEN <<>> ELSE get_by_upload(snapshots, upload_id[1])
EventMembers ==
    MemberSet(EventSnapshots(event.before_upload_id))
        \cup MemberSet(EventSnapshots(event.after_upload_id))
PeriodMetricCount(period_id, m) ==
    Cardinality({j \in 1..Len(metrics) :
                    metrics[j].period_id = period_id /\ metrics[j].member_id = m})
EventMetricCount(m) ==
    Cardinality({j \in 1..Len(event_metrics) : event_metrics[j].member_id = m})

\* C9: after any sequence of rebuilds and event (re)processings, every member
\* of a period's end upload has exactly one metric row of that period and
\* nobody else has one; every member of the union of a processed event's
\* before and after snapshots has exactly one metric row of the event and
\* nobody else has one.
C9_OneRowPerMember ==
    (NoRebuildUnderWay /\ NoProcessingUnderWay) =>
        /\ \A k \in 1..Len(periods) : \A m \in MemberIds :
              PeriodMetricCount(periods[k].id, m) =
                  IF m \in MemberSet(get_by_upload(snapshots, periods[k].end_upload_id))
                  THEN 1 ELSE 0
        /\ \A j \in 1..Len(metrics) : metrics[j].period_id \in PeriodIds(periods)
        /\ \A m \in MemberIds :
              EventMetricCount(m) = IF m \in EventMembers THEN 1 ELSE 0

\* rebuilt and reprocessed: two periods, an event between two uploads with
\* different members
C9_Witness ==
    /\ NoRebuildUnderWay
    /\ eb[1].pc = "done"
    /\ eb[1].event[1].status = "completed"
    /\ Len(periods) >= 2
    /\ Len(metrics) >= 3
    /\ event.before_upload_id # event.after_upload_id
    /\ MemberSet(EventSnapshots(event.before_upload_id))
           # MemberSet(EventSnapshots(event.after_upload_id))
    /\ Len(event_metrics) = Cardinality(MemberIds)

\* What one process_event_snapshots call stores for the pair of the event
FreshEventMetrics ==
    process_event_snapshots([event |-> event, event_metrics |-> <<>>],
                            snapshots, uploads,
                            event.before_upload_id[1],
                            event.after_upload_id[1]).event_metrics

\* C10: after any number of process_event_snapshots calls on the event, its
\* stored metrics are exactly those computed from the last call's pair of
\* uploads: nothing of earlier calls is left, and a call on a COMPLETED event
\* leaves the event COMPLETED with the results of its own pair.
C10_EventMetricsOfLastPair ==
    NoProcessingUnderWay =>
        /\ event.status \in {"draft", "completed"}
        /\ event.status = "draft" => event_metrics = <<>>
        /\ event.status = "completed" => event_metrics = FreshEventMetrics
        /\ \A p \in Procs :
              eb[p].pc = "done"
              => /\ event.status = "completed"
                 /\ event.before_upload_id = eb[p].before_upload_id
                 /\ event.after_upload_id = eb[p].after_upload_id

\* a COMPLETED event was processed again, with a pair that leaves out a
\* member the event had rows for
C10_Witness ==
    /\ eb[1].pc = "done"
    /\ eb[1].event[1].status = "completed"
    /\ event.status = "completed"
    /\ Len(event_metrics) < Cardinality(MemberIds)
    /\ event_metrics # <<>>

EventRowsOf(m) ==
    {event_metrics[j] : j \in {i \in 1..Len(event_metrics) : event_metrics[i].member_id = m}}
AllDiffsZero(row) ==
    /\ row.contribution_diff = 0
    /\ row.merit_diff = 0
    /\ row.assist_diff = 0
    /\ row.donation_diff = 0
    /\ row.power_diff = 0

\* C12: the rows process_event_snapshots stores put every member of the two
\* snapshot sets into exactly one case.  In both sets: cumulative diffs
\* max(0, after - before), signed power_diff, is_new_member false, flags of
\* the category predicate.  Only after: is_new_member, all diffs 0, neither
\* participated nor absent.  Only before: is_absent, not new, not
\* participated, all diffs 0.
C12_MemberCases ==
    (NoProcessingUnderWay /\ event.status = "completed") =>
        \A m \in MemberIds :
            LET before == EventSnapshots(event.before_upload_id)
                after == EventSnapshots(event.after_upload_id)
                in_before == m \in MemberSet(before)
                in_after == m \in MemberSet(after)
            IN /\ Cardinality(EventRowsOf(m)) = IF in_before \/ in_after THEN 1 ELSE 0
               /\ \A row \in EventRowsOf(m) :
                  IF in_before /\ in_after
                  THEN LET b == SnapOf(before, m)
                           a == SnapOf(after, m)
                       IN /\ row.contribution_diff = Max(0, a.total_contribution - b.total_contribution)
                          /\ row.merit_diff = Max(0, a.total_merit - b.total_merit)
                          /\ row.assist_diff = Max(0, a.total_assist - b.total_assist)
                          /\ row.donation_diff = Max(0, a.total_donation - b.total_donation)
                          /\ row.power_diff = a.power_value - b.power_value
                          /\ ~row.is_new_member
                          /\ <<row.participated, row.is_absent>> =
                                 determine_participation(
                                     event.event_type, row.contribution_diff,
                                     row.merit_diff, row.assist_diff, row.power_diff)
                  ELSE IF in_after
                  THEN /\ row.is_new_member
                       /\ AllDiffsZero(row)
                       /\ ~row.participated
                       /\ ~row.is_absent
                  ELSE /\ in_before
                       /\ row.is_absent
                       /\ ~row.is_new_member
                       /\ ~row.participated
                       /\ AllDiffsZero(row)

\* a processed pair with a member in both sets whose power fell and whose
\* merit total fell, and a member only in the before set
C12_Witness ==
    /\ NoProcessingUnderWay
    /\ event.status = "completed"
    /\ \E j \in 1..Len(event_metrics) :
          /\ event_metrics[j].power_diff < 0
          /\ event_metrics[j].merit_diff = 0
          /\ event_metrics[j].contribution_diff > 0
    /\ \E j \in 1..Len(event_metrics) :
          event_metrics[j].is_absent /\ event_metrics[j].end_snapshot_id = None

\* C13: _determine_participation returns, for BATTLE, participated iff
\* merit_diff > 0; for SIEGE, participated iff contribution_diff > 0 or
\* assist_diff > 0; for FORBIDDEN, participated false; is_absent is the
\* negation of participated for BATTLE and SIEGE and false for FORBIDDEN.
C13_ParticipationByCategory ==
    result # None =>
        LET participated == result[1][1]
            is_absent == result[1][2]
        IN /\ call.event_type = "battle" =>
                 /\ participated <=> call.merit_diff > 0
                 /\ is_absent <=> ~participated
           /\ call.event_type = "siege" =>
                 /\ participated <=> (call.contribution_diff > 0 \/ call.assist_diff > 0)
                 /\ is_absent <=> ~participated
           /\ call.event_type = "forbidden" =>
                 /\ ~participated
                 /\ ~is_absent

\* the inputs of the spec's example: only assist_diff is positive, BATTLE
C13_Witness ==
    /\ result = Some(<<FALSE, TRUE>>)
    /\ call.event_type = "battle"
    /\ call.contribution_diff = 0
    /\ call.merit_diff = 0
    /\ call.assist_diff > 0

\* The periods whose uploads are stored
PeriodsOfStoredUploads ==
    {p \in PeriodRows :
        /\ p.end_upload_id \in UploadIdsOf(uploads)
        /\ p.start_upload_id # None => p.start_upload_id[1] \in UploadIdsOf(uploads)}
HasNoStartSnapshot(p, m) ==
    \/ p.start_upload_id = None
    \/ m \notin MemberSet(snapshots[p.start_upload_id[1]])

\* C14: a PeriodMetric row has is_new_member exactly when its member has no
\* snapshot in the start upload of its period (the first period has no start
\* upload); such a row has each cumulative diff equal to the raw total of the
\* end snapshot and start_snapshot_id, start_rank and rank_change null.
C14_NewMemberRows ==
    \A p \in PeriodsOfStoredUploads :
        \A row \in {r \in MetricRows : r.period_id = p.id} :
            LET e == SnapOf(snapshots[p.end_upload_id], row.member_id)
            IN /\ row.is_new_member <=> HasNoStartSnapshot(p, row.member_id)
               /\ row.is_new_member =>
                     /\ row.contribution_diff = e.total_contribution
                     /\ row.merit_diff = e.total_merit
                     /\ row.assist_diff = e.total_assist
                     /\ row.donation_diff = e.total_donation
                     /\ row.start_snapshot_id = None
                     /\ row.start_rank = None
                     /\ row.rank_change = None

\* a later period with a row of a member found only in its end upload and a
\* row of a member of both uploads, after a first period
C14_Witness ==
    \E p \in PeriodsOfStoredUploads :
        /\ p.start_upload_id # None
        /\ \E row \in MetricRows :
              /\ row.period_id = p.id
              /\ row.is_new_member
              /\ row.contribution_diff > 0
        /\ \E row \in MetricRows : row.period_id = p.id /\ ~row.is_new_member
        /\ \E q \in PeriodsOfStoredUploads : q.start_upload_id = None

\* C15: every row built for a member without a start snapshot (first period
\* of the season, or newly joined in a later period) has power_diff 0,
\* whatever the power_value of its end snapshot.  (_build_first_period_metrics
\* stores the end snapshot's power_value instead.)
C15_FirstPeriodPowerDiffZero ==
    \A row \in MetricRows : row.start_snapshot_id = None => row.power_diff = 0

MembersWithRow(p) == {row.member_id : row \in {r \in MetricRows : r.period_id = p.id}}

\* C16: once the rebuild is over, for every period the members that have a
\* PeriodMetric row are exactly the members of the period's end upload; a
\* member found only in the start upload has no row of that period.
C16_RowsForEndUploadMembers ==
    NoRebuildUnderWay =>
        \A p \in PeriodsOfStoredUploads :
            MembersWithRow(p) = MemberSet(snapshots[p.end_upload_id])

\* a period whose start upload holds a member that its end upload lacks
C16_Witness ==
    NoRebuildUnderWay /\ \E p \in PeriodsOfStoredUploads :
        /\ p.start_upload_id # None
        /\ MemberSet(snapshots[p.start_upload_id[1]])
              \ MemberSet(snapshots[p.end_upload_id]) # {}
        /\ MembersWithRow(p) # {}

Abs(x) == IF x < 0 THEN 0 - x ELSE x

\* rate, in hundredths, is a value with two decimal places nearest to diff / days
NearestHundredth(rate, diff, days) == 2 * Abs(100 * diff - rate * days) <= days

ScenarioOfSpec ==
    [first_day |-> 8, second_day |-> 15, first_total |-> 7000, second_total |-> 12000]
\* the season holds the uploads and snapshots of the spec's scenario
ScenarioOfSpecStored ==
    /\ uploads = ScenarioUploads(ScenarioOfSpec)
    /\ snapshots = ScenarioSnapshots(ScenarioOfSpec)

\* C17: each daily rate of a PeriodMetric is diff / days rounded to two
\* decimal places; for season start day 1, uploads on day 8 with
\* total_contribution 7000 and on day 15 with 12000, the rebuild yields
\* period 1 with contribution_diff 7000, daily_contribution 1000.00,
\* is_new_member true and period 2 with contribution_diff 5000,
\* daily_contribution 714.29, is_new_member false.
C17_DailyRates ==
    /\ \A j \in 1..Len(metrics) :
          LET row == metrics[j]
              p == CHOOSE q \in PeriodRows : q.id = row.period_id
          IN /\ NearestHundredth(row.daily_contribution, row.contribution_diff, p.days)
             /\ NearestHundredth(row.daily_merit, row.merit_diff, p.days)
             /\ NearestHundredth(row.daily_assist, row.assist_diff, p.days)
             /\ NearestHundredth(row.daily_donation, row.donation_diff, p.days)
    /\ (Rebuilt /\ ScenarioOfSpecStored) =>
          /\ Len(periods) = 2
          /\ Len(metrics) = 2
          /\ periods[1].period_number = 1
          /\ periods[1].days = 7
          /\ metrics[1].period_id = periods[1].id
          /\ metrics[1].contribution_diff = 7000
          /\ metrics[1].daily_contribution = 100000
          /\ metrics[1].is_new_member
          /\ periods[2].period_number = 2
          /\ periods[2].days = 7
          /\ metrics[2].period_id = periods[2].id
          /\ metrics[2].contribution_diff = 5000
          /\ metrics[2].daily_contribution = 71429
          /\ ~metrics[2].is_new_member

\* the rebuild of the spec's scenario has returned
C17_Witness ==
    /\ Rebuilt
    /\ ScenarioOfSpecStored
    /\ Len(metrics) = 2

\* The rows the summary that was returned was computed from
CallRows == {call.summary_metrics[k] : k \in 1..Len(call.summary_metrics)}
ParticipantRows == {row \in CallRows : row.participated}
\* get_event_summary has returned a summary to the reader
SummaryReturned ==
    call # None /\ result # None /\ call.fn = "summary" /\ result[1] # None
\* get_event_group_analytics has returned analytics to the reader
AnalyticsReturned ==
    call # None /\ result # None /\ call.fn = "group_analytics" /\ result[1] # None
RowSet(rows) == {rows[k] : k \in 1..Len(rows)}
\* every summary and every group's stats that the reader got, each with the
\* rows it was computed from
StatsReturned ==
    IF SummaryReturned
    THEN {[stats |-> result[1], rows |-> CallRows]}
    ELSE IF AnalyticsReturned
    THEN LET analytics == result[1][1]
         IN {[stats |-> analytics.summary, rows |-> CallRows]}
            \cup {[stats |-> analytics.group_stats[k],
                   rows |-> {row \in RowSet(call.metrics) :
                               GroupNameOf(row) = analytics.group_stats[k].group_name}] :
                     k \in 1..Len(analytics.group_stats)}
    ELSE {}

\* C18: for the metrics stored by process_event_snapshots, the
\* participation_rate of the event summary and of every group's stats lies
\* in [0, 100] (here in tenths), and it is 0 when no member is eligible (total
\* members minus new members is zero), an empty metric list included.
C18_ParticipationRateBounded ==
    \A s \in StatsReturned :
        LET eligible == {row \in s.rows : ~row.is_new_member}
            participants == {row \in s.rows : row.participated}
        IN /\ s.stats.participation_rate >= 0
           /\ s.stats.participation_rate <= 1000
           /\ eligible = {} => s.stats.participation_rate = 0
           /\ (eligible # {} /\ participants = eligible)
                 => s.stats.participation_rate = 1000

\* the stats of a group whose only member is new
C18_Witness ==
    /\ AnalyticsReturned
    /\ \E k \in 1..Len(result[1][1].group_stats) :
          LET stats == result[1][1].group_stats[k]
              rows == {row \in RowSet(call.metrics) :
                          GroupNameOf(row) = stats.group_name}
          IN /\ rows # {}
             /\ \A row \in rows : row.is_new_member
             /\ stats.participation_rate = 0

SumOfRows(rows, Field(_)) ==
    SumSeq([k \in 1..Len(rows) |-> Field(rows[k])])
ParticipantsOfCall == SelectSeq(call.summary_metrics, LAMBDA m : m.participated)

\* C19: in the event summary total_merit, total_assist and
\* total_contribution are the sums over the records with participated true,
\* and the averages are those sums divided by the number of participants: a
\* member who did not participate adds nothing.  (The summary sums over all
\* records.)
C19_TotalsOfParticipantsOnly ==
    SummaryReturned =>
        LET n == Len(ParticipantsOfCall)
            merit == SumOfRows(ParticipantsOfCall, LAMBDA m : m.merit_diff)
            assist == SumOfRows(ParticipantsOfCall, LAMBDA m : m.assist_diff)
            contribution == SumOfRows(ParticipantsOfCall, LAMBDA m : m.contribution_diff)
        IN /\ result[1].total_merit = merit
           /\ result[1].total_assist = assist
           /\ result[1].total_contribution = contribution
           /\ result[1].avg_merit = IF n > 0 THEN RoundTenths(merit, n) ELSE 0
           /\ result[1].avg_assist = IF n > 0 THEN RoundTenths(assist, n) ELSE 0
           /\ result[1].avg_contribution =
                  IF n > 0 THEN RoundTenths(contribution, n) ELSE 0

\* C20: for a BATTLE event the summary's MVP is a participant whose
\* merit_diff is the largest of all participants, reported only when that
\* merit_diff is > 0; when no record has merit_diff > 0, or there are no
\* records, mvp_member_id, mvp_member_name and mvp_merit are all null.
C20_BattleMvp ==
    (SummaryReturned /\ call.event_type = "battle") =>
        IF \E row \in CallRows : row.merit_diff > 0
        THEN \E row \in ParticipantRows :
                /\ \A other \in ParticipantRows : other.merit_diff <= row.merit_diff
                /\ row.merit_diff > 0
                /\ result[1].mvp_member_id = Some(row.member_id)
                /\ result[1].mvp_member_name = Some(row.member_name)
                /\ result[1].mvp_merit = Some(row.merit_diff)
        ELSE /\ result[1].mvp_member_id = None
             /\ result[1].mvp_member_name = None
             /\ result[1].mvp_merit = None

\* C11: in every process_event_snapshots run the status is ANALYZING before
\* a metric row of the event is deleted or inserted and while the run is at
\* or past the delete; it becomes COMPLETED only in the last step, with the
\* newly computed metrics already stored; a run that fails after the status
\* became ANALYZING leaves the status ANALYZING.
C11_StatusOrder ==
    [][/\ event_metrics' # event_metrics
            => event.status = "analyzing" /\ event'.status = "analyzing"
       /\ eb'[1].pc \in {"times", "snapshots", "delete", "insert", "complete"}
            => event'.status = "analyzing"
       /\ (event'.status = "completed" /\ event.status # "completed")
            => /\ eb[1].pc = "complete"
               /\ event.status = "analyzing"
               /\ event_metrics' = event_metrics
               /\ event_metrics' = FreshEventMetrics'
       /\ (eb'[1].pc = "failed" /\ eb'[1].analyzing)
            => event'.status = "analyzing"]_vars

\* a run on a COMPLETED event failed between the delete and the insert
C11_Witness ==
    /\ eb[1].pc = "failed"
    /\ eb[1].analyzing
    /\ eb[1].event[1].status = "completed"
    /\ eb[1].before_snapshots # <<>>
    /\ event.status = "analyzing"
    /\ event_metrics = <<>>

FirstRowOfGroup(g) ==
    CHOOSE k \in 1..Len(call.metrics) :
        /\ GroupNameOf(call.metrics[k]) = g
        /\ \A j \in 1..(k - 1) : GroupNameOf(call.metrics[j]) # g
RowOfMember(name) ==
    CHOOSE k \in 1..Len(call.metrics) : call.metrics[k].member_name = name

\* a top-N or violator list: ranks 1..k, k <= top_n, scores non-increasing,
\* equal scores in the order of the input rows
RankingInOrder(items) ==
    /\ Len(items) <= call.top_n
    /\ \A i \in 1..Len(items) : items[i].rank = i
    /\ \A i, j \in 1..Len(items) :
          i < j => /\ items[i].score >= items[j].score
                   /\ items[i].score = items[j].score
                        => RowOfMember(items[i].member_name)
                             < RowOfMember(items[j].member_name)

\* C21: get_event_group_analytics returns group_stats in non-increasing
\* order of the category's primary metric (total_merit for BATTLE,
\* total_contribution + total_assist for SIEGE, violator_count for
\* FORBIDDEN), groups of equal metric in the order of their first input row,
\* and every top-N / violator list with ranks 1..k, k <= top_n, scores
\* non-increasing and equal scores in input order.
C21_AnalyticsOrder ==
    AnalyticsReturned =>
        LET analytics == result[1][1]
            gs == analytics.group_stats
        IN /\ \A i, j \in 1..Len(gs) :
                 i < j =>
                    /\ GroupSortKey(gs[i], call.event_type)
                         >= GroupSortKey(gs[j], call.event_type)
                    /\ GroupSortKey(gs[i], call.event_type)
                         = GroupSortKey(gs[j], call.event_type)
                         => FirstRowOfGroup(gs[i].group_name)
                              < FirstRowOfGroup(gs[j].group_name)
           /\ RankingInOrder(analytics.top_members)
           /\ RankingInOrder(analytics.top_contributors)
           /\ RankingInOrder(analytics.top_assisters)
           /\ RankingInOrder(analytics.violators)

\* two groups of equal total_merit and two ranked members of equal merit,
\* after a row of smaller merit
C21_Witness ==
    /\ AnalyticsReturned
    /\ call.event_type = "battle"
    /\ LET analytics == result[1][1]
       IN /\ Len(analytics.group_stats) = 2
          /\ analytics.group_stats[1].total_merit = analytics.group_stats[2].total_merit
          /\ analytics.group_stats[1].total_merit > 0
          /\ Len(analytics.top_members) = 2
          /\ analytics.top_members[1].score = analytics.top_members[2].score
          /\ Len(call.metrics) = MaxRows

StatusChanges ==
    {<<"draft", "activated", "activate_season">>,
     <<"activated", "completed", "complete_season">>,
     <<"completed", "activated", "reopen_season">>}
\* the status a handler requires of its target
RequiredStatus ==
    [activate_season |-> "draft", complete_season |-> "activated",
     reopen_season |-> "completed"]

\* a step of the call of p that is under way
CallStep(p) == sq[p].pc # "idle" /\ sq'[p] # sq[p]

\* C22: a season's activation_status changes only draft -> activated by
\* activate_season, activated -> completed by complete_season and
\* completed -> activated by reopen_season, each on its own target; while the
\* target is in another status a call of the three handlers writes neither a
\* season nor the alliance's quota, and a call that starts then raises
\* ValueError; no season returns to draft.
C22_StatusTransitions ==
    [][/\ \A s \in SeasonIds :
             (/\ seasons[s].exists
              /\ seasons'[s].exists
              /\ seasons'[s].activation_status # seasons[s].activation_status)
             => \E p \in Procs :
                   /\ CallStep(p)
                   /\ sq[p].season_id = Some(s)
                   /\ <<seasons[s].activation_status, seasons'[s].activation_status,
                        sq[p].fn>> \in StatusChanges
       /\ \A p \in Procs :
             (/\ CallStep(p)
              /\ sq[p].fn \in DOMAIN RequiredStatus
              /\ seasons[sq[p].season_id[1]].activation_status # RequiredStatus[sq[p].fn])
             => seasons' = seasons /\ alliance' = alliance
       /\ \A p \in Procs :
             (/\ SeasonCallFree(p)
              /\ sq'[p].pc # "idle"
              /\ sq'[p].fn \in DOMAIN RequiredStatus)
             => seasons[sq'[p].season_id[1]].activation_status = RequiredStatus[sq'[p].fn]
       /\ (/\ sq' = sq
           /\ result' # result
           /\ result'[1].fn \in DOMAIN RequiredStatus
           /\ seasons[result'[1].season_id[1]].activation_status
                # RequiredStatus[result'[1].fn])
          => /\ result'[1].error = Some("ValueError")
             /\ seasons' = seasons
             /\ alliance' = alliance]_vars

CurrentSeasons == {s \in SeasonIds : seasons[s].exists /\ seasons[s].is_current}

\* C23: with every call run to completion, at most one season has
\* is_current = True; a set_current_season call that returns leaves its target
\* as the only current season, a call on a draft season raises ValueError and
\* changes no flag, and no other handler changes a flag (so the current season
\* is the target of the last successful call).
C23_OneCurrentSeason ==
    [][/\ Cardinality(CurrentSeasons') <= 1
       /\ CurrentSeasons' # CurrentSeasons
          => \E p \in Procs : CallStep(p) /\ sq[p].fn = "set_current_season"
       /\ \A p \in Procs :
             (CallStep(p) /\ sq[p].fn = "set_current_season" /\ sq'[p].pc = "idle")
             => /\ result' = SeasonResponse(sq[p], None)
                /\ CurrentSeasons' = {sq[p].season_id[1]}
       /\ \A p \in Procs :
             (/\ SeasonCallFree(p)
              /\ sq'[p].pc # "idle"
              /\ sq'[p].fn = "set_current_season")
             => seasons[sq'[p].season_id[1]].activation_status # "draft"
       /\ (/\ sq' = sq
           /\ result' # result
           /\ result'[1].fn = "set_current_season")
          => /\ \/ ~seasons[result'[1].season_id[1]].exists
                \/ seasons[result'[1].season_id[1]].activation_status = "draft"
             /\ result'[1].error = Some("ValueError")
             /\ seasons' = seasons]_vars

\* set_current_season returned while another season was activated or
\* completed: its target is the only current season
C23_Witness ==
    /\ result # None
    /\ result[1].fn = "set_current_season"
    /\ result[1].error = None
    /\ \A p \in Procs : sq[p].pc = "idle"
    /\ CurrentSeasons = {result[1].season_id[1]}
    /\ \E s \in SeasonIds \ CurrentSeasons : seasons[s].activation_status = "completed"

TrialSeasons == {s \in SeasonIds : seasons[s].exists /\ seasons[s].is_trial}

\* C25: under any interleaving of activate_season calls at most one season of
\* the alliance is a trial season, and a season becomes a trial season only
\* while the alliance has no available purchased season and no activated or
\* completed season.  (consume_season decides on what it read two awaits
\* before the season is written; nothing serializes two calls.)
C25_OneTrialSeason ==
    [][/\ Cardinality(TrialSeasons') <= 1
       /\ \A s \in SeasonIds :
             (~seasons[s].is_trial /\ seasons'[s].is_trial)
             => /\ calculate_available_seasons(alliance) = 0
                /\ has_trial_available(seasons)]_vars

PaidSeasons ==
    {s \in SeasonIds : /\ seasons[s].exists
                       /\ seasons[s].activation_status # "draft"
                       /\ ~seasons[s].is_trial}
QuotaCallsOver == \A p \in Procs : sq[p].pc = "idle"

\* C30: under any interleaving of activate_season and add_purchased_seasons
\* the seasons activated as paid never outnumber purchased_seasons, with no
\* call under way used_seasons is their number, and every
\* add_purchased_seasons raises purchased_seasons by its quantity.  (Both
\* updates write a value computed from a row read earlier.)
C30_QuotaUpdatesNotLost ==
    [][/\ Cardinality(PaidSeasons') <= alliance'.purchased_seasons
       /\ QuotaCallsOver' => alliance'.used_seasons = Cardinality(PaidSeasons')
       /\ \A p \in Procs :
             (sq[p].pc = "add_update" /\ sq'[p].pc = "idle")
             => alliance'.purchased_seasons
                  = alliance.purchased_seasons + sq[p].quantity]_vars

HasRecord(st, key) == RecordIndex(st, key) # 0

\* C24: for one user and one Idempotency-Key the downstream handler completes
\* with 2xx at most once: a request that arrives while the key's record is
\* PROCESSING gets 409, one that arrives when it is COMPLETED gets the cached
\* status, neither runs the handler, and a record leaves the storage only by
\* storage.fail after a non-2xx response or an exception.  (A record also
\* leaves when storage.create evicts the oldest records at max_size and when
\* it expires; the next request with the key runs the handler again.)
C24_HandlerOncePerKey ==
    [][/\ \A key \in IdemKeys : handled'[key] <= 1
       /\ \A p \in Procs :
             (req[p].pc = "idle" /\ req'[p].pc # "idle")
             => LET i == RecordIndex(store, req'[p].key[1])
                IN /\ (i # 0 /\ store[i].status = "processing")
                        => req'[p].pc = "rejected"
                   /\ (i # 0 /\ store[i].status = "completed")
                        => /\ req'[p].pc = "cached"
                           /\ req'[p].status_code = store[i].status_code
       /\ \A key \in IdemKeys :
             (HasRecord(store, key) /\ ~HasRecord(store', key))
             => \E p \in Procs : /\ req[p].pc = "fail"
                                 /\ req[p].key = Some(key)
                                 /\ req'[p].pc = "responded"]_vars

EventRowSet(rows) == {rows[j] : j \in 1..Len(rows)}

\* C26: whenever the event's status is COMPLETED, its stored metrics are the
\* complete set computed from its recorded before and after uploads, one row
\* per member of the union of the two snapshot sets; also after a failed run
\* and while two runs on the event overlap.  (update_upload_ids is written
\* before the status leaves COMPLETED, and one run's update_status(COMPLETED)
\* can follow the other run's delete_by_event.)
C26_CompletedHasMetrics ==
    event.status = "completed"
    => /\ event.before_upload_id # None
       /\ event.after_upload_id # None
       /\ EventRowSet(event_metrics) = EventRowSet(FreshEventMetrics)
       /\ \A m \in MemberIds :
             EventMetricCount(m) = IF m \in EventMembers THEN 1 ELSE 0

\* total_contribution of the member in an upload of the scenario; upload 2
\* is the later one
ScenarioTotal(upload_id) == SnapOf(snapshots[upload_id], "m1").total_contribution

\* contribution_diff of a member summed over the metric rows of all periods
RECURSIVE ContributionSum(_, _)
ContributionSum(rows, m) ==
    IF rows = <<>> THEN 0
    ELSE (IF Head(rows).member_id = m THEN Head(rows).contribution_diff ELSE 0)
           + ContributionSum(Tail(rows), m)

\* C27: for a member present in every upload, with counters that never
\* decrease, contribution_diff summed over the season's periods is the
\* member's total_contribution in the latest upload, whatever the upload
\* dates.  (An upload dated on the season's start day or on the day of the
\* upload before it gets no period, and what it holds is counted nowhere.)
C27_DiffsSumToLatestTotal ==
    (Rebuilt /\ ScenarioTotal(1) <= ScenarioTotal(2))
    => ContributionSum(metrics, "m1") = ScenarioTotal(2)

\* the participated and is_absent flags the category gives a row's diffs
CategoryFlags(event_type, row) ==
    determine_participation(event_type, row.contribution_diff, row.merit_diff,
                            row.assist_diff, row.power_diff)

\* C28: every stored metric of a member present in both snapshot sets has the
\* participated and is_absent flags that the event's current event_type gives
\* its diffs, also after update_event has changed the event_type of a
\* processed event.  (update_event writes the event row only.)
C28_FlagsOfCurrentCategory ==
    \A j \in 1..Len(event_metrics) :
        LET row == event_metrics[j]
        IN (row.start_snapshot_id # None /\ row.end_snapshot_id # None)
           => <<row.participated, row.is_absent>> = CategoryFlags(event.event_type, row)

\* C29: after process_event_snapshots on a FORBIDDEN event no stored metric
\* has participated or is_absent set, the rows of members present only in the
\* before set included, and the summary's absent_count is 0.  (The row of a
\* member who left is stored with is_absent = True in every category.)
C29_ForbiddenHasNoAbsentees ==
    /\ (event # None /\ event.event_type = "forbidden" /\ event.status = "completed")
       => \A j \in 1..Len(event_metrics) :
             ~event_metrics[j].participated /\ ~event_metrics[j].is_absent
    /\ (SummaryReturned /\ call.event_type = "forbidden")
       => result[1].absent_count = 0

\* The steps of a call add up to process_event_snapshots
EventStepsMatchHandler ==
    eb[1].pc = "done"
        => EventDb = process_event_snapshots(
                         [event |-> eb[1].event[1], event_metrics |-> <<>>],
                         snapshots, uploads,
                         eb[1].before_upload_id[1], eb[1].after_upload_id[1])

\* The steps of a call add up to calculate_periods_for_season
StepsMatchHandler ==
    (rb[1].pc = "done" /\ rb[2].pc = "idle") => StoredView = SingleCallView

====
